---- MODULE Spec2Model ----
(***************************************************************************)
(* Traffic API: the multi-source fetch / normalise / fallback pipeline of  *)
(* server.js with its three adapters (TII, WebTRIS, Google Maps) and their *)
(* five-minute caches.                                                     *)
(*                                                                         *)
(* A JavaScript string is a sequence of one-character strings, so that     *)
(* toUpperCase, the regular expressions and the cache keys are computed.   *)
(* undefined and "" are both the empty sequence: the code only ever tests  *)
(* the optional parameters (town, country) for truthiness.                 *)
(* Time is Date.now() in milliseconds.                                     *)
(***************************************************************************)
EXTENDS Integers, Sequences, FiniteSets, TLC

\* ------------------------------------------------------------------ strings

LowerLetters == <<"a", "b", "c", "d", "e", "f", "g", "h", "i", "j", "k", "l", "m",
                  "n", "o", "p", "q", "r", "s", "t", "u", "v", "w", "x", "y", "z">>
UpperLetters == <<"A", "B", "C", "D", "E", "F", "G", "H", "I", "J", "K", "L", "M",
                  "N", "O", "P", "Q", "R", "S", "T", "U", "V", "W", "X", "Y", "Z">>
Digits == {"0", "1", "2", "3", "4", "5", "6", "7", "8", "9"}

IndexIn(seq, c) == IF \E i \in 1..Len(seq) : seq[i] = c
                   THEN CHOOSE i \in 1..Len(seq) : seq[i] = c
                   ELSE 0

UpperChar(c) == IF IndexIn(LowerLetters, c) > 0 THEN UpperLetters[IndexIn(LowerLetters, c)] ELSE c
LowerChar(c) == IF IndexIn(UpperLetters, c) > 0 THEN LowerLetters[IndexIn(UpperLetters, c)] ELSE c

\* String.prototype.toUpperCase / toLowerCase
toUpperCase(s) == [i \in 1..Len(s) |-> UpperChar(s[i])]
toLowerCase(s) == [i \in 1..Len(s) |-> LowerChar(s[i])]

IsDigit(c) == c \in Digits
IsLetter(c) == IndexIn(UpperLetters, UpperChar(c)) > 0

\* String.prototype.includes (case-sensitive)
includes(s, w) ==
  \E i \in 1..(Len(s) - Len(w) + 1) : \A j \in 1..Len(w) : s[i + j - 1] = w[j]

\* /word/i : the word occurs anywhere, letters compared without case
TestWordI(s, w) == includes(toUpperCase(s), toUpperCase(w))

\* /^X[0-9]+$/i for X one of the letters of `letters`
TestLetterDigits(s, letters) ==
  /\ Len(s) >= 2
  /\ UpperChar(s[1]) \in letters
  /\ \A i \in 2..Len(s) : IsDigit(s[i])

\* /^X[0-9]+[A-Z]?$/i
TestLetterDigitsOptLetter(s, letters) ==
  \/ TestLetterDigits(s, letters)
  \/ /\ Len(s) >= 3
     /\ UpperChar(s[1]) \in letters
     /\ \A i \in 2..(Len(s) - 1) : IsDigit(s[i])
     /\ IsLetter(s[Len(s)])

\* /^(M|N|A)[0-9]+/i : a prefix test, nothing anchors the end
TestMNAPrefix(s) ==
  /\ Len(s) >= 2
  /\ UpperChar(s[1]) \in {"M", "N", "A"}
  /\ IsDigit(s[2])

DigitSeq == <<"0", "1", "2", "3", "4", "5", "6", "7", "8", "9">>
DigitValue(c) == IndexIn(DigitSeq, c) - 1

\* ------------------------------------------------- road-ownership heuristics

IrishWords == { <<"D", "u", "b", "l", "i", "n">>, <<"C", "o", "r", "k">>,
                <<"G", "a", "l", "w", "a", "y">>,
                <<"L", "i", "m", "e", "r", "i", "c", "k">>,
                <<"W", "a", "t", "e", "r", "f", "o", "r", "d">>,
                <<"D", "r", "o", "g", "h", "e", "d", "a">>,
                <<"S", "w", "o", "r", "d", "s">>,
                <<"D", "u", "n", "d", "a", "l", "k">> }

\* tiiAdapter isIrishRoad
isIrishRoad(road) ==
  \/ TestLetterDigits(road, {"M"})
  \/ TestLetterDigits(road, {"N"})
  \/ TestLetterDigits(road, {"R"})
  \/ TestLetterDigits(road, {"L"})
  \/ \E w \in IrishWords : TestWordI(road, w)

UKWords == { <<"M", "o", "t", "o", "r", "w", "a", "y">>,
             <<"M", "i", "l", "t", "o", "n", " ", "K", "e", "y", "n", "e", "s">>,
             <<"B", "i", "r", "m", "i", "n", "g", "h", "a", "m">>,
             <<"M", "a", "n", "c", "h", "e", "s", "t", "e", "r">>,
             <<"L", "o", "n", "d", "o", "n">>, <<"L", "e", "e", "d", "s">>,
             <<"G", "l", "a", "s", "g", "o", "w">>,
             <<"E", "d", "i", "n", "b", "u", "r", "g", "h">> }

\* the motorway numbers of the isLikelyIrish alternation
IrishMotorwayNumbers == (1..9) \cup {11, 17, 18, 20, 50} \cup (54..57) \cup (61..89)

\* /^M(1|2|...|89)$/i
isLikelyIrish(road) ==
  /\ Len(road) \in {2, 3}
  /\ UpperChar(road[1]) = "M"
  /\ \A i \in 2..Len(road) : IsDigit(road[i])
  /\ road[2] # "0"
  /\ LET n == IF Len(road) = 2 THEN DigitValue(road[2])
              ELSE 10 * DigitValue(road[2]) + DigitValue(road[3])
     IN  n \in IrishMotorwayNumbers

\* webtrisAdapter isUKRoad
isUKRoad(road) ==
  /\ \/ TestLetterDigitsOptLetter(road, {"M"})
     \/ TestLetterDigitsOptLetter(road, {"A"})
     \/ TestLetterDigits(road, {"B"})
     \/ \E w \in UKWords : TestWordI(road, w)
  /\ ~isLikelyIrish(road)

StreetWords == { <<"s", "t", "r", "e", "e", "t">>, <<"r", "o", "a", "d">>,
                 <<"a", "v", "e", "n", "u", "e">>, <<"l", "a", "n", "e">>,
                 <<"d", "r", "i", "v", "e">>, <<"w", "a", "y">>,
                 <<"b", "o", "u", "l", "e", "v", "a", "r", "d">> }

nonCoveredCountries == { <<"U", "S">>, <<"F", "R">>, <<"D", "E">>, <<"E", "S">>,
                         <<"I", "T">>, <<"N", "L">>, <<"B", "E">>, <<"A", "T">>,
                         <<"C", "H">>, <<"P", "T">> }

\* googleMapsAdapter isGoogleMapsPreferred
isGoogleMapsPreferred(road, town, country) ==
  \/ town # << >> /\ ~TestMNAPrefix(road)
  \/ country # << >> /\ toUpperCase(country) \in nonCoveredCountries
  \/ \E w \in StreetWords : TestWordI(road, w)

\* --------------------------------------------------------------- constants

\* CACHE_TTL_MS of the three adapters: 5 minutes
CACHE_TTL_MS == 5 * 60 * 1000

\* the value of a missing property, and of a result's absent `error`
Undefined == "undefined"

Unknown == <<"U", "n", "k", "n", "o", "w", "n">>

\* (variant: no clamp, the second argument is returned as it is)
MaxUnclamped(a, b) == b

\* Math.max(a, b)
Max(a, b) == IF a > b THEN a ELSE b

\* Math.round(n / d) for integers n >= 0, d > 0 (halves round up)
RoundDiv(n, d) == (2 * n + d) \div (2 * d)

\* Minute quantities of a normalized record are held in tenths of a minute,
\* the finest grain any adapter produces (WebTRIS rounds to one decimal).
Tenths(minutes) == 10 * minutes

\* A coordinate of a record as the provider sent it: absent, a number (held in
\* thousandths of a degree) or a string.
NoCoord == [t |-> "undefined"]
NumCoord(n) == [t |-> "number", v |-> n]
StrCoord(s) == [t |-> "string", v |-> s]
NoLocation == [lat |-> NoCoord, lon |-> NoCoord]

\* JavaScript truthiness of such a value
Truthy(x) ==
  IF x.t = "number" THEN x.v # 0
  ELSE IF x.t = "string" THEN x.v # << >>
  ELSE FALSE

\* a || b
OrElse(a, b) == IF Truthy(a) THEN a ELSE b

\* ------------------------------------------------------------- TII adapter

\* tiiAdapter getCacheKey: `tii:${road.toUpperCase()}`
tiiCacheKey(road) == <<"t", "i", "i", ":">> \o toUpperCase(road)

\* the four-tier ladder of normalizeTIIRecord, applied to `delay` as computed
\* there: travelTime - freeFlowTime in the feed's unit (seconds)
tiiCongestion(delay) ==
  IF delay > 10 THEN "heavy"
  ELSE IF delay > 5 THEN "moderate"
  ELSE IF delay > 2 THEN "light"
  ELSE "none"

\* road.replace(/^R/i, '')
StripLeadingR(road) ==
  IF Len(road) >= 1 /\ UpperChar(road[1]) = "R" THEN SubSeq(road, 2, Len(road)) ELSE road

\* normalizeTIIRecord; a situation is its first situationRecord:
\* [roadName, directionBound, travelTime, freeFlowTravelTime, lat, lon], times in
\* seconds, 0 standing for a missing number (both are falsy)
normalizeTIIRecord(record) ==
  LET road == IF record.roadName # << >> THEN record.roadName ELSE Unknown
      travelTime == record.travelTime
      freeFlowTime == IF record.freeFlowTravelTime # 0 THEN record.freeFlowTravelTime
                      ELSE travelTime
      delay == Max(0, travelTime - freeFlowTime)
  IN  [ source |-> "TII-Ireland",
        road |-> StripLeadingR(road),
        direction |-> record.directionBound,
        travelTimeMinutes |-> Tenths(RoundDiv(travelTime, 60)),
        freeFlowTimeMinutes |-> Tenths(RoundDiv(freeFlowTime, 60)),
        delayMinutes |-> Tenths(RoundDiv(delay, 60)),
        congestionLevel |-> tiiCongestion(delay),
        location |-> [lat |-> record.lat, lon |-> record.lon] ]

\* fetchTIITraffic lines 94-100: the situations whose roadName includes the road
RECURSIVE tiiFilter(_, _)
tiiFilter(situations, road) ==
  IF situations = << >> THEN << >>
  ELSE IF includes(toUpperCase(Head(situations).roadName), toUpperCase(road))
       THEN <<Head(situations)>> \o tiiFilter(Tail(situations), road)
       ELSE tiiFilter(Tail(situations), road)

\* fetchTIITraffic line 103: filteredData.map(normalizeTIIRecord)
tiiNormalizeAll(filteredData) ==
  [i \in 1..Len(filteredData) |-> normalizeTIIRecord(filteredData[i])]

\* --------------------------------------------------------- WebTRIS adapter

\* webtrisAdapter getCacheKey: `webtris:${road.toUpperCase()}`
webtrisCacheKey(road) == <<"w", "e", "b", "t", "r", "i", "s", ":">> \o toUpperCase(road)

\* the report `{}` used for a site that has no report
NoReport == [siteId |-> 0, speed |-> 0, vehicleFlow |-> 0]

\* the speed ladder of normalizeWebTRISRecord; speed / typicalSpeed < 0.3 is
\* compared as 10 * speed < 3 * typicalSpeed
webtrisCongestion(speed, typicalSpeed) ==
  IF 10 * speed < 3 * typicalSpeed \/ speed < 20 THEN "heavy"
  ELSE IF 10 * speed < 6 * typicalSpeed \/ speed < 40 THEN "moderate"
  ELSE IF 10 * speed < 8 * typicalSpeed \/ speed < 55 THEN "light"
  ELSE "none"

\* road.replace(/^M/i, 'M')
UpperLeadingM(road) ==
  IF Len(road) >= 1 /\ UpperChar(road[1]) = "M" THEN <<"M">> \o Tail(road) ELSE road

\* normalizeWebTRISRecord; a site is
\* [id, name, direction, typicalSpeed, length, latitude, longitude],
\* a report [siteId, speed, vehicleFlow], 0 standing for a missing number
normalizeWebTRISRecord(site, report) ==
  LET road == IF site.name # << >> THEN site.name ELSE Unknown
      speed == report.speed
      flow == report.vehicleFlow
      typicalSpeed == IF site.typicalSpeed # 0 THEN site.typicalSpeed ELSE 70
      distanceKm == IF site.length # 0 THEN site.length ELSE 1
      \* Math.round(x * 10) / 10 of (distanceKm / speed) * 60, in tenths
      travelTime10 == IF speed > 0 THEN RoundDiv(600 * distanceKm, speed) ELSE 0
      freeFlow10 == RoundDiv(600 * distanceKm, typicalSpeed)
      \* Math.max(0, travelTime - freeFlowTime) of the unrounded values, then rounded
      delay10 == IF speed > 0 /\ speed < typicalSpeed
                 THEN RoundDiv(600 * distanceKm * (typicalSpeed - speed), speed * typicalSpeed)
                 ELSE 0
  IN  [ source |-> "WebTRIS-UK",
        siteId |-> site.id,
        road |-> UpperLeadingM(road),
        direction |-> site.direction,
        vehicleFlow |-> flow,
        averageSpeed |-> speed,
        congestionLevel |-> webtrisCongestion(speed, typicalSpeed),
        travelTimeMinutes |-> travelTime10,
        freeFlowTimeMinutes |-> freeFlow10,
        delayMinutes |-> delay10,
        location |-> [lat |-> site.latitude, lon |-> site.longitude] ]

\* (variant: only the sites that have a report give a record)
RECURSIVE webtrisMergeMatchedOnly(_, _)
webtrisMergeMatchedOnly(sites, reports) ==
  IF sites = << >> THEN << >>
  ELSE IF \E j \in 1..Len(reports) : reports[j].siteId = Head(sites).id
       THEN <<normalizeWebTRISRecord(Head(sites),
                reports[CHOOSE j \in 1..Len(reports) :
                          /\ reports[j].siteId = Head(sites).id
                          /\ \A k \in 1..(j - 1) : reports[k].siteId # Head(sites).id])>>
              \o webtrisMergeMatchedOnly(Tail(sites), reports)
       ELSE webtrisMergeMatchedOnly(Tail(sites), reports)

\* fetchWebTRISTraffic step 3: one record per site, with the first report whose
\* siteId is the site's, or `{}`
webtrisMerge(sites, reports) ==
  [i \in 1..Len(sites) |->
     LET hits == {j \in 1..Len(reports) : reports[j].siteId = sites[i].id}
         report == IF hits = {} THEN NoReport
                   ELSE reports[CHOOSE j \in hits : \A k \in hits : j <= k]
     IN  normalizeWebTRISRecord(sites[i], report)]

\* ----------------------------------------------------- Google Maps adapter

\* googleMapsAdapter getCacheKey: `googlemaps:${origin.toLowerCase()}:${destination.toLowerCase()}`
googleCacheKey(origin, destination) ==
  <<"g", "o", "o", "g", "l", "e", "m", "a", "p", "s", ":">>
    \o toLowerCase(origin) \o <<":">> \o toLowerCase(destination)

\* calculateCongestion(durationInTraffic, duration), both in seconds; the
\* ratios 2.0, 1.5 and 1.2 are compared by cross-multiplication
calculateCongestion(durationInTraffic, duration) ==
  IF duration = 0 THEN "unknown"
  ELSE IF durationInTraffic - duration > 15 * 60 \/ durationInTraffic > 2 * duration
       THEN "heavy"
  ELSE IF durationInTraffic - duration > 5 * 60 \/ 2 * durationInTraffic > 3 * duration
       THEN "moderate"
  ELSE IF durationInTraffic - duration > 2 * 60 \/ 5 * durationInTraffic > 6 * duration
       THEN "light"
  ELSE "none"

\* normalizeGoogleMapsData; a route is its first leg:
\* [distance (metres), duration, duration_in_traffic (seconds)], 0 for missing;
\* distanceKm is held in hundredths of a kilometre
normalizeGoogleMapsData(route, origin, destination, road) ==
  LET durationSeconds == route.duration
      durationInTrafficSeconds == IF route.duration_in_traffic # 0
                                  THEN route.duration_in_traffic ELSE durationSeconds
      durationMinutes == RoundDiv(durationSeconds, 60)
      durationInTrafficMinutes == RoundDiv(durationInTrafficSeconds, 60)
  IN  [ source |-> "GoogleMaps",
        road |-> IF road # << >> THEN road ELSE Unknown,
        origin |-> origin,
        destination |-> destination,
        distanceKm |-> RoundDiv(route.distance, 10),
        durationMinutes |-> Tenths(durationMinutes),
        durationInTrafficMinutes |-> Tenths(durationInTrafficMinutes),
        delayMinutes |-> Tenths(Max(0, durationInTrafficMinutes - durationMinutes)),
        congestionLevel |-> calculateCongestion(durationInTrafficSeconds, durationSeconds) ]

\* buildLocationQuery: [road, town?, country?].join(', ')
buildLocationQuery(road, town, country) ==
  road \o (IF town # << >> THEN <<",", " ">> \o town ELSE << >>)
       \o (IF country # << >> THEN <<",", " ">> \o country ELSE << >>)

\* fetchRoadTraffic: the first origin / destination pair
roadTrafficOrigin(road, town, country) ==
  IF town # << >> THEN town \o <<" ">> \o country
  ELSE buildLocationQuery(road, town, country)

roadTrafficDestination(road, town, country) == buildLocationQuery(road, town, country)

\* fetchRoadTraffic: the alternative pair of the retry
altOrigin(road, town) == <<"N", "e", "a", "r", " ">> \o road \o <<",", " ">> \o town
altDest(road, town) == <<"E", "n", "d", " ", "o", "f", " ">> \o road \o <<",", " ">> \o town

\* --------------------------------------------- enrichment (extractSegment.js)

\* CACHE_TTL of the enrichment cache: 5 minutes
CACHE_TTL == 5 * 60 * 1000

\* A field of an extraction result is null or a value: << >> or <<value>>.
None == << >>
Some(v) == <<v>>
IsSome(x) == Len(x) = 1

\* String(n) for an integer n >= 0
RECURSIVE Dec(_)
Dec(n) ==
  IF n < 10 THEN <<DigitSeq[n + 1]>> ELSE Dec(n \div 10) \o <<DigitSeq[(n % 10) + 1]>>

\* n.toFixed(3) for n held in thousandths
toFixed3(n) ==
  LET a == IF n < 0 THEN -n ELSE n
      frac == a % 1000
  IN  (IF n < 0 THEN <<"-">> ELSE << >>) \o Dec(a \div 1000) \o <<".">>
        \o (IF frac < 10 THEN <<"0", "0">> ELSE IF frac < 100 THEN <<"0">> ELSE << >>)
        \o Dec(frac)

\* ---- the regular expressions of createFallbackResult

\* \w at position i of s
WordCharAt(s, i) ==
  i >= 1 /\ i <= Len(s) /\ (IsLetter(s[i]) \/ IsDigit(s[i]) \/ s[i] = "_")

\* \b between positions i - 1 and i
Boundary(s, i) == WordCharAt(s, i - 1) # WordCharAt(s, i)

Whitespace == {" ", "\t", "\n", "\r"}

\* the last position of the longest run of characters of `set` that starts
\* at i (i - 1 when there is none)
RunEnd(s, i, set) ==
  LET ends == {j \in i..Len(s) : \A k \in i..j : s[k] \in set}
  IN  IF ends = {} THEN i - 1 ELSE CHOOSE j \in ends : \A k \in ends : k <= j

\* the literal w (in lower case) at position i, whatever the case of s
LiteralAt(s, i, w) ==
  /\ i >= 1
  /\ i + Len(w) - 1 <= Len(s)
  /\ toLowerCase(SubSeq(s, i, i + Len(w) - 1)) = w

Least(S) == CHOOSE i \in S : \A k \in S : i <= k

\* /\b(M\d+|N\d+|A\d+|E\d+|R\d+)\b/i : the end of a match that starts at i, or 0
RoadMatchEnd(s, i) ==
  LET e == RunEnd(s, i + 1, Digits)
  IN  IF /\ i <= Len(s)
         /\ Boundary(s, i)
         /\ UpperChar(s[i]) \in {"M", "N", "A", "E", "R"}
         /\ e >= i + 1
         /\ Boundary(s, e + 1)
      THEN e ELSE 0

FirstRoad(s, starts) ==
  IF starts = {} THEN None
  ELSE Some(SubSeq(s, Least(starts), RoadMatchEnd(s, Least(starts))))

roadMatch(s) == FirstRoad(s, {i \in 1..Len(s) : RoadMatchEnd(s, i) # 0})

\* /\b(w1|w2|..)\b/i : the leftmost match, as written in s
KeywordAt(s, i, w) == Boundary(s, i) /\ LiteralAt(s, i, w) /\ Boundary(s, i + Len(w))

KeywordFrom(s, words, i) ==
  Some(SubSeq(s, i, i + Len(words[Least({j \in 1..Len(words) : KeywordAt(s, i, words[j])})]) - 1))

FirstKeyword(s, words, starts) ==
  IF starts = {} THEN None ELSE KeywordFrom(s, words, Least(starts))

keywordMatch(s, words) ==
  FirstKeyword(s, words,
               {i \in 1..Len(s) : \E k \in 1..Len(words) : KeywordAt(s, i, words[k])})

DirectionWords ==
  << <<"n", "o", "r", "t", "h", "b", "o", "u", "n", "d">>,
     <<"s", "o", "u", "t", "h", "b", "o", "u", "n", "d">>,
     <<"e", "a", "s", "t", "b", "o", "u", "n", "d">>,
     <<"w", "e", "s", "t", "b", "o", "u", "n", "d">>,
     <<"n", "o", "r", "t", "h">>, <<"s", "o", "u", "t", "h">>,
     <<"e", "a", "s", "t">>, <<"w", "e", "s", "t">> >>

CongestionWords ==
  << <<"n", "o", "n", "e">>, <<"l", "i", "g", "h", "t">>, <<"m", "o", "d", "e", "r", "a", "t", "e">>,
     <<"h", "e", "a", "v", "y">>, <<"s", "e", "v", "e", "r", "e">> >>

IncidentWords ==
  << <<"c", "o", "l", "l", "i", "s", "i", "o", "n">>, <<"c", "r", "a", "s", "h">>,
     <<"a", "c", "c", "i", "d", "e", "n", "t">>, <<"b", "r", "e", "a", "k", "d", "o", "w", "n">>,
     <<"r", "o", "a", "d", "w", "o", "r", "k", "s">>,
     <<"c", "o", "n", "s", "t", "r", "u", "c", "t", "i", "o", "n">>,
     <<"i", "n", "c", "i", "d", "e", "n", "t">> >>

TrafficWords == << <<"t", "r", "a", "f", "f", "i", "c">>, <<"c", "o", "n", "g", "e", "s", "t", "i", "o", "n">> >>

UnitWords == << <<"k", "m", "/", "h">>, <<"m", "p", "h">>, <<"k", "p", "h">> >>

\* /\b(none|light|moderate|heavy|severe)\s+(traffic|congestion)\b/i at i with
\* the level words[k]
CongestionAfter(s, i, w, e) ==
  /\ Boundary(s, i)
  /\ LiteralAt(s, i, w)
  /\ e >= i + Len(w)
  /\ \E t \in 1..Len(TrafficWords) :
       LiteralAt(s, e + 1, TrafficWords[t]) /\ Boundary(s, e + 1 + Len(TrafficWords[t]))

CongestionAt(s, i, k) ==
  CongestionAfter(s, i, CongestionWords[k],
                  RunEnd(s, i + Len(CongestionWords[k]), Whitespace))

CongestionFrom(s, i) ==
  Some(SubSeq(s, i, i + Len(CongestionWords[
                              Least({j \in 1..Len(CongestionWords) : CongestionAt(s, i, j)})]) - 1))

FirstCongestion(s, hits) == IF hits = {} THEN None ELSE CongestionFrom(s, Least(hits))

congestionMatch(s) ==
  FirstCongestion(s, {i \in 1..Len(s) :
                        \E k \in 1..Len(CongestionWords) : CongestionAt(s, i, k)})

\* `${speedMatch[1]} ${speedMatch[2] || 'km/h'}` for the digits that start at d
UnitFrom(s, u, units) ==
  IF units = {} THEN UnitWords[1]
  ELSE SubSeq(s, u, u + Len(UnitWords[Least(units)]) - 1)

UnitAt(s, u) == UnitFrom(s, u, {k \in 1..Len(UnitWords) : LiteralAt(s, u, UnitWords[k])})

DigitsAndUnit(s, d, e) ==
  SubSeq(s, d, e) \o <<" ">> \o UnitAt(s, RunEnd(s, e + 1, Whitespace) + 1)

SpeedText(s, d) == DigitsAndUnit(s, d, RunEnd(s, d, Digits))

\* /(?:speed[:\s]+|at\s+)(\d+)\s*(km\/h|mph|kph)?/i : where the digits of a
\* match that starts at i begin, or 0
SpeedDigitsAt(s, d) == IF d # 0 /\ RunEnd(s, d, Digits) >= d THEN d ELSE 0

SpeedPrefixEnds(s, i, afterSpeed, afterAt) ==
  IF LiteralAt(s, i, <<"s", "p", "e", "e", "d">>) /\ afterSpeed >= i + 5 THEN afterSpeed + 1
  ELSE IF LiteralAt(s, i, <<"a", "t">>) /\ afterAt >= i + 2 THEN afterAt + 1
  ELSE 0

SpeedPrefixedAt(s, i) ==
  SpeedDigitsAt(s, SpeedPrefixEnds(s, i, RunEnd(s, i + 5, Whitespace \cup {":"}),
                                   RunEnd(s, i + 2, Whitespace)))

\* /(\d+)\s*(km\/h|mph|kph)/i at i
SpeedUnitAfter(s, i, e) ==
  e >= i /\ \E k \in 1..Len(UnitWords) :
              LiteralAt(s, RunEnd(s, e + 1, Whitespace) + 1, UnitWords[k])

SpeedUnitAt(s, i) == SpeedUnitAfter(s, i, RunEnd(s, i, Digits))

FirstSpeed(s, prefixed, united) ==
  IF prefixed # {} THEN Some(SpeedText(s, SpeedPrefixedAt(s, Least(prefixed))))
  ELSE IF united # {} THEN Some(SpeedText(s, Least(united)))
  ELSE None

speedMatch(s) ==
  FirstSpeed(s, {i \in 1..Len(s) : SpeedPrefixedAt(s, i) # 0},
             {i \in 1..Len(s) : SpeedUnitAt(s, i)})

\* ---- the extraction results

\* generateHumanReadable: the parts that are joined, each the field values it
\* is made of; << >> stands for 'Location information unavailable'
generateHumanReadable(extracted) ==
  (IF IsSome(extracted.road) /\ IsSome(extracted.direction)
     THEN << <<"road direction", extracted.road, extracted.direction>> >>
     ELSE IF IsSome(extracted.road) THEN << <<"road", extracted.road>> >> ELSE << >>)
  \o (IF IsSome(extracted.segment) THEN << <<"- segment", extracted.segment>> >> ELSE << >>)
  \o (IF IsSome(extracted.landmark) THEN << <<"(landmark)", extracted.landmark>> >> ELSE << >>)
  \o (IF IsSome(extracted.congestion)
        THEN << <<"[congestion]", extracted.congestion>> >> ELSE << >>)
  \o (IF IsSome(extracted.speed) THEN << <<"at speed", extracted.speed>> >> ELSE << >>)
  \o (IF IsSome(extracted.incidentType)
        THEN << <<"- incidentType", extracted.incidentType>> >> ELSE << >>)

WithHumanReadable(extracted) ==
  [humanReadable |-> generateHumanReadable(extracted)] @@ extracted

\* typeof trafficData === 'string': the inputs of extractSegment are texts,
\* [text |-> ..], and record objects
IsText(trafficData) == "text" \in DOMAIN trafficData

\* trafficData.<field> || null of a record object
FieldOrNull(trafficData, field) ==
  IF field \in DOMAIN trafficData THEN Some(trafficData[field]) ELSE None

\* createFallbackResult: what it returns, or the TypeError it throws
createFallbackResult(trafficData) ==
  IF IsText(trafficData)
  THEN LET s == trafficData.text
           road == roadMatch(s)
           extracted ==
             [ road |-> IF IsSome(road) THEN Some(toUpperCase(road[1])) ELSE None,
               direction |-> keywordMatch(s, DirectionWords),
               segment |-> None,
               landmark |-> None,
               congestion |-> congestionMatch(s),
               speed |-> speedMatch(s),
               incidentType |-> keywordMatch(s, IncidentWords),
               rawExtracted |-> FALSE ]
       IN  [threw |-> FALSE, error |-> Undefined, value |-> WithHumanReadable(extracted)]
  ELSE LET location == IF "location" \in DOMAIN trafficData THEN trafficData.location
                       ELSE NoLocation
           \* trafficData.location?.lat || trafficData.lat (no record has a bare lat)
           lat == OrElse(location.lat, NoCoord)
           lon == OrElse(location.lon, NoCoord)
       IN  IF Truthy(lat) /\ Truthy(lon) /\ lat.t # "number"
           THEN [threw |-> TRUE, error |-> "lat.toFixed is not a function", value |-> << >>]
           ELSE IF Truthy(lat) /\ Truthy(lon) /\ lon.t # "number"
           THEN [threw |-> TRUE, error |-> "lon.toFixed is not a function", value |-> << >>]
           ELSE LET extracted ==
                      [ road |-> IF "road" \in DOMAIN trafficData /\ trafficData.road # << >>
                                 THEN Some(trafficData.road) ELSE None,
                        direction |-> FieldOrNull(trafficData, "direction"),
                        segment |-> IF Truthy(lat) /\ Truthy(lon)
                                    THEN Some(<<"C", "o", "o", "r", "d", "i", "n", "a", "t", "e", "s", ":", " ">>
                                                \o toFixed3(lat.v) \o <<",", " ">> \o toFixed3(lon.v))
                                    ELSE None,
                        landmark |-> None,
                        congestion |-> FieldOrNull(trafficData, "congestionLevel"),
                        speed |-> IF "averageSpeed" \in DOMAIN trafficData
                                       /\ trafficData.averageSpeed # 0
                                  THEN Some(Dec(trafficData.averageSpeed) \o <<" ", "k", "m", "/", "h">>)
                                  ELSE None,
                        incidentType |-> FieldOrNull(trafficData, "incidentType"),
                        rawExtracted |-> FALSE ]
                IN  [threw |-> FALSE, error |-> Undefined, value |-> WithHumanReadable(extracted)]

\* ------------------------------------------ junction monitor (M1 segments)

\* M1_SEGMENTS.southbound of m1-junction-monitor.js, which is SEGMENTS.southbound
\* of check-m1-traffic.js: name, town and normalTime (minutes)
M1_SEGMENTS ==
  << [name |-> "J10-J9 Drogheda", town |-> "Drogheda", normalTime |-> 5],
     [name |-> "J9-J8 Drogheda-Duleek", town |-> "Duleek", normalTime |-> 8],
     [name |-> "J8-J7 Duleek-Julianstown", town |-> "Julianstown", normalTime |-> 5],
     [name |-> "J7-J6 Julianstown-Balbriggan", town |-> "Balbriggan", normalTime |-> 8],
     [name |-> "J6-J5 Balbriggan", town |-> "Balbriggan", normalTime |-> 3],
     [name |-> "J5-J4 Balbriggan-Donabate", town |-> "Donabate", normalTime |-> 7],
     [name |-> "J4-J3 Donabate-Swords", town |-> "Swords", normalTime |-> 6],
     [name |-> "J3-J1 Swords-M50", town |-> "Swords", normalTime |-> 5] >>

\* the two programs that check the route
Monitor == "m1-junction-monitor.js"
Script == "check-m1-traffic.js"

\* currentTime: null
NullTime == -1

\* a || b for numbers (0 and null are falsy)
OrNumber(a, b) == IF a # 0 /\ a # NullTime THEN a ELSE b

RECURSIVE Sum(_)
Sum(numbers) == IF numbers = << >> THEN 0 ELSE Head(numbers) + Sum(Tail(numbers))

\* data.find(d => d.travelTimeMinutes) || data[0]
RelevantRecord(data) ==
  IF \E i \in 1..Len(data) : data[i].travelTimeMinutes # 0
  THEN data[Least({i \in 1..Len(data) : data[i].travelTimeMinutes # 0})]
  ELSE data[1]

\* processSegmentData lines 101-116
segmentStatus(delayMinutes) ==
  IF delayMinutes >= 10 THEN "heavy"
  ELSE IF delayMinutes >= 5 THEN "moderate"
  ELSE IF delayMinutes >= 2 THEN "light"
  ELSE "clear"

\* `requestFailed` is kept for observation: whether the request of the segment
\* failed
SegmentResult(segment, status, currentTime, delayMinutes, congestionLevel, requestFailed) ==
  [ name |-> segment.name, town |-> segment.town, normalTime |-> segment.normalTime,
    status |-> status, currentTime |-> currentTime, delayMinutes |-> delayMinutes,
    congestionLevel |-> congestionLevel, requestFailed |-> requestFailed ]

MeasuredResult(segment, currentTime, delayMinutes, congestionLevel) ==
  SegmentResult(segment, segmentStatus(delayMinutes), currentTime, delayMinutes,
                congestionLevel, FALSE)

\* processSegmentData; data is apiResponse.data || []
processSegmentData(segment, data) ==
  IF Len(data) = 0
  THEN SegmentResult(segment, "clear", segment.normalTime, 0, "none", FALSE)
  ELSE MeasuredResult(segment,
         OrNumber(RelevantRecord(data).travelTimeMinutes, segment.normalTime),
         OrNumber(RelevantRecord(data).delayMinutes,
                  Max(0, OrNumber(RelevantRecord(data).travelTimeMinutes, segment.normalTime)
                           - segment.normalTime)),
         RelevantRecord(data).congestionLevel)
         @@ [rawData |-> RelevantRecord(data)]

\* checkSegment: fetch rejects, the status is not ok, or the body is processed
checkSegment(segment, o) ==
  IF o.kind = "ok" THEN processSegmentData(segment, o.data)
  ELSE SegmentResult(segment, "unknown", NullTime, 0, "unknown", TRUE)

\* processSegment of check-m1-traffic.js; the record it chose is kept as rawData
\* for observation, as the monitor returns it
ScriptResult(segment, currentTime, delayMinutes) ==
  SegmentResult(segment, IF delayMinutes >= 5 THEN "delayed" ELSE "clear",
                currentTime, delayMinutes, "none", FALSE)

processSegment(segment, data) ==
  IF Len(data) = 0
  THEN SegmentResult(segment, "clear", segment.normalTime, 0, "none", FALSE)
  ELSE ScriptResult(segment,
         OrNumber(RelevantRecord(data).travelTimeMinutes, segment.normalTime),
         OrNumber(RelevantRecord(data).delayMinutes,
                  Max(0, OrNumber(RelevantRecord(data).travelTimeMinutes, segment.normalTime)
                           - segment.normalTime)))
         @@ [rawData |-> RelevantRecord(data)]

\* main of check-m1-traffic.js, lines 406-426: fetchTraffic rejects on a
\* transport error only; the body of any status is parsed and processed
scriptSegment(segment, o) ==
  IF o.kind = "error"
  THEN SegmentResult(segment, "error", segment.normalTime, 0, "none", TRUE)
  ELSE processSegment(segment, IF o.kind = "ok" THEN o.data ELSE << >>)

\* (variant: the two middle rungs the other way round)
recommendationTierMinorFirst(totalDelay) ==
  IF totalDelay >= 15 THEN "major"
  ELSE IF totalDelay >= 5 THEN "minor"
  ELSE IF totalDelay >= 10 THEN "significant"
  ELSE "clear"

\* (variant: minor delays from three minutes on)
recommendationTierFromThree(totalDelay) ==
  IF totalDelay >= 15 THEN "major"
  ELSE IF totalDelay >= 10 THEN "significant"
  ELSE IF totalDelay >= 3 THEN "minor"
  ELSE "clear"

\* generateReport lines 175-185, main lines 439-448: which message is chosen
recommendationTier(totalDelay) ==
  IF totalDelay >= 15 THEN "major"
  ELSE IF totalDelay >= 10 THEN "significant"
  ELSE IF totalDelay >= 5 THEN "minor"
  ELSE "clear"

\* segmentResults.reduce((worst, current) =>
\*   current.delayMinutes > worst.delayMinutes ? current : worst)
worstSegment(segmentResults) ==
  segmentResults[Least({i \in 1..Len(segmentResults) :
                          \A j \in 1..Len(segmentResults) :
                            segmentResults[j].delayMinutes <= segmentResults[i].delayMinutes})]

NoJunctionReport(script) == [script |-> script, present |-> FALSE]

\* what the report says: the totals, the worst segment, the message chosen and
\* the segment it names, the summary.totalDelay returned next to it and
\* whether the report is sent to Telegram
JunctionReport(script, totalNormalTime, totalCurrentTime, worst, summaryTotalDelay) ==
  [ script |-> script, present |-> TRUE,
    totalNormalTime |-> totalNormalTime,
    totalCurrentTime |-> totalCurrentTime,
    totalDelay |-> totalCurrentTime - totalNormalTime,
    worstSegment |-> worst.name,
    recommendation |-> recommendationTier(totalCurrentTime - totalNormalTime),
    names |-> IF \/ recommendationTier(totalCurrentTime - totalNormalTime) = "significant"
                 \/ /\ recommendationTier(totalCurrentTime - totalNormalTime) = "minor"
                    /\ script = Monitor
              THEN Some(worst.name) ELSE None,
    summaryTotalDelay |-> summaryTotalDelay,
    notified |-> script = Script /\ totalCurrentTime - totalNormalTime >= 5 ]

\* generateReport and handleTrafficCheck lines 216-239
generateReport(segmentResults) ==
  JunctionReport(Monitor,
    Sum([i \in 1..Len(segmentResults) |-> segmentResults[i].normalTime]),
    Sum([i \in 1..Len(segmentResults) |->
           OrNumber(segmentResults[i].currentTime, segmentResults[i].normalTime)]),
    worstSegment(segmentResults),
    Sum([i \in 1..Len(segmentResults) |-> segmentResults[i].delayMinutes]))

\* main of check-m1-traffic.js, lines 428-490
scriptReport(segmentResults) ==
  JunctionReport(Script,
    Sum([i \in 1..Len(segmentResults) |-> segmentResults[i].normalTime]),
    Sum([i \in 1..Len(segmentResults) |-> segmentResults[i].currentTime]),
    worstSegment(segmentResults),
    Sum([i \in 1..Len(segmentResults) |-> segmentResults[i].currentTime])
      - Sum([i \in 1..Len(segmentResults) |-> segmentResults[i].normalTime]))

\* how many segments of the route are checked
MaxSegments == 3

RouteSegments == SubSeq(M1_SEGMENTS, 1, MaxSegments)

\* a record of the /traffic response, minutes as the API sends them; a
\* travelTimeMinutes of 0 is a missing or zero one (both are falsy and nothing
\* else reads it), a delayMinutes of NullTime is one the record does not supply
ApiRecord(travelTimeMinutes, delayMinutes) ==
  [travelTimeMinutes |-> travelTimeMinutes, delayMinutes |-> delayMinutes,
   congestionLevel |-> "moderate", source |-> "TII-Ireland"]

\* what the request of a segment comes back with: a transport error, a status
\* that is not ok, no records, one record (its travel time missing, below, at
\* or above the normal time; its delay not supplied, 0 or more), two records
\* of which the first has no travel time
SegmentOutcomes ==
  { [kind |-> "error"], [kind |-> "http", status |-> 500], [kind |-> "ok", data |-> << >>] }
    \cup { [kind |-> "ok", data |-> <<ApiRecord(t, d)>>] : t \in {0, 5, 8, 10, 12, 25}, d \in {NullTime, 0, 6} }
    \cup { [kind |-> "ok", data |-> <<ApiRecord(0, 0), ApiRecord(10, 2)>>] }

\* ------------------------------------------------------------------ inputs

M1 == <<"M", "1">>
ALL == <<"A", "L", "L">>
IE == <<"I", "E">>
UK == <<"U", "K">>

\* the roads of the queries: the ambiguous M1 in both cases, an Irish-only
\* motorway number (M50), a motorway both predicates accept (M25), a UK A road,
\* an Irish regional road and a UK B road (no M/N/A designation), a street
\* named after an Irish town and a name no pattern knows
R132 == <<"R", "1", "3", "2">>
A40 == <<"A", "4", "0">>
B12 == <<"B", "1", "2">>
CorkWay == <<"C", "o", "r", "k", " ", "W", "a", "y">>
Quay == <<"Q", "u", "a", "y">>

Roads == { M1, <<"m", "1">>, <<"M", "5", "0">>, <<"M", "2", "5">>, A40, R132, B12,
           CorkWay, Quay }

\* ?country= ; an absent parameter is 'ALL' by the handler's default, << >> is
\* the empty string
Countries == { << >>, ALL, IE, <<"i", "e">>, UK, <<"U", "S">> }

Towns == { << >>, <<"C", "o", "r", "k">> }

\* error.message of a failed axios call (timeout, connection error, non-2xx:
\* axios throws for each, and the adapters treat them alike)
NetErrors == { "timeout of 10000ms exceeded" }

\* the TII /traffic feed, all roads together; the coordinates come as numbers,
\* as strings or not at all
TIIFeed == << [roadName |-> M1, directionBound |-> "Northbound",
               travelTime |-> 1680, freeFlowTravelTime |-> 1320,
               lat |-> NumCoord(53350), lon |-> NumCoord(-6260)],
              [roadName |-> R132, directionBound |-> "Unknown",
               travelTime |-> 304, freeFlowTravelTime |-> 300,
               lat |-> StrCoord(<<"5", "3", ".", "7">>), lon |-> StrCoord(<<"-", "6", ".", "3">>)],
              [roadName |-> CorkWay, directionBound |-> "Eastbound",
               travelTime |-> 90, freeFlowTravelTime |-> 0,
               lat |-> NoCoord, lon |-> NoCoord] >>

\* what the TII request can come back with: a thrown axios error, a body with
\* no `situation`, a `situation` that is no array, or a feed
TIIOutcomes ==
  [kind : {"error"}, message : NetErrors]
    \cup { [kind |-> "noSituation"], [kind |-> "notArray"] }
    \cup [kind : {"ok"}, situation : {TIIFeed}]

Site1 == [id |-> 101, name |-> M1, direction |-> "Northbound", typicalSpeed |-> 70, length |-> 2,
          latitude |-> NumCoord(52198), longitude |-> NumCoord(-915)]
Site2 == [id |-> 102, name |-> <<"m", "1">>, direction |-> "Southbound", typicalSpeed |-> 0, length |-> 0,
          latitude |-> StrCoord(<<"5", "1", ".", "5">>), longitude |-> StrCoord(<<"0", ".", "1">>)]

\* what the WebTRIS /sites request can come back with
SitesOutcomes ==
  [kind : {"error"}, message : NetErrors]
    \cup { [kind |-> "notArray"] }
    \cup [kind : {"ok"}, sites : {<< >>, <<Site1, Site2>>}]

\* what the WebTRIS /reports/current request can come back with
ReportsOutcomes ==
  [kind : {"error"}, message : NetErrors]
    \cup [kind : {"ok"},
          reports : { <<[siteId |-> 102, speed |-> 65, vehicleFlow |-> 7],
                        [siteId |-> 102, speed |-> 10, vehicleFlow |-> 30]>> }]

\* what the Directions request can come back with: a thrown axios error, a
\* status other than OK, OK with no route, OK with a route that has no legs,
\* OK with a route
GoogleOutcomes ==
  [kind : {"error"}, message : NetErrors]
    \cup [kind : {"status"}, status : {"ZERO_RESULTS"}]
    \cup { [kind |-> "noRoutes"], [kind |-> "noLegs"] }
    \cup [kind : {"ok"},
          route : { [distance |-> 42000, duration |-> 1500, duration_in_traffic |-> 2700] }]

\* the queries and answers of a client that polls: R132 in Ireland is TII's,
\* A40 in the UK is WebTRIS's; both go on to Google Maps when the free adapter
\* has nothing
PollQueries ==
  { [road |-> R132, country |-> IE, town |-> << >>],
    [road |-> A40, country |-> UK, town |-> << >>] }

PollTIIOutcomes == {o \in TIIOutcomes : o.kind \in {"error", "noSituation", "ok"}}
PollSitesOutcomes == {o \in SitesOutcomes : o.kind \in {"error", "ok"}}
PollGoogleOutcomes == {o \in GoogleOutcomes : o.kind \in {"error", "noRoutes", "ok"}}

\* ------------------------------------------------------------------- bounds

\* the clock advances by half the TTL at a time, so that an entry is seen at
\* the ages 0, TTL/2, TTL (the edge of isCacheValid) and beyond; every request
\* is over within its axios timeouts (10 s each), far less than one step
TickMs == CACHE_TTL_MS \div 2

\* how many times the clock advances
MaxTicks == 2

\* how many /traffic requests the polling client sends
MaxRequests == 2

\* -------------------------------------------------------------------- state

VARIABLES
  now,             \* Date.now()
  apiKey,          \* whether process.env.GOOGLE_MAPS_API_KEY is set
  tiiCache,        \* tiiAdapter cache: key -> [data, timestamp]
  webtrisCache,    \* webtrisAdapter cache
  googleCache,     \* googleMapsAdapter cache
  apiCallCount,    \* googleMapsAdapter apiCallCount
  apiCallHistory,  \* googleMapsAdapter apiCallHistory
  nreq,            \* /traffic requests served so far
  pc,              \* where the request being served is suspended
  query,           \* its road, country and town
  results,         \* fetchTrafficWithFallback's `results`
  sites,           \* fetchWebTRISTraffic's `sites` while the reports are awaited
  response,        \* the body the handler sent
  calls,           \* the adapter calls of this request, in call order
  last,            \* per adapter, its most recent completed call
  llmEnabled,      \* whether process.env.LLM_API_KEY is set
  llmCache,        \* extractSegment cache: key -> [data, timestamp]
  tasks,           \* the extractSegment calls of the request being served
  route,           \* junction monitor: the segments checked so far
  report,          \* junction monitor: the report of the route
  produced,        \* the records normalized from provider payloads
  fetches,         \* adapter fetches called side by side
  writes           \* which of them wrote the cache, in the order of the writes

vars == <<now, apiKey, tiiCache, webtrisCache, googleCache, apiCallCount,
          apiCallHistory, nreq, pc, query, results, sites, response, calls, last,
          llmEnabled, llmCache, tasks, route, report, produced, fetches, writes>>

\* the state of the junction monitor scripts and of the side-by-side fetches
sideVars == <<route, report, produced, fetches, writes>>

Adapters == {"TII-Ireland", "WebTRIS-UK", "GoogleMaps"}

\* what an adapter resolves with; fromCache and error are absent from some of
\* the returned objects: an absent fromCache is FALSE, an absent error Undefined
Result(data, fromCache, error, timestamp) ==
  [data |-> data, fromCache |-> fromCache, error |-> error, timestamp |-> timestamp]

NoResult == Result(<< >>, FALSE, Undefined, -1)
NoFetch == [present |-> FALSE, key |-> << >>, failed |-> FALSE, result |-> NoResult]

EmptyResults == [data |-> << >>, sourcesUsed |-> << >>, fallbackUsed |-> FALSE,
                 errors |-> << >>, details |-> << >>]

NoResponse == [status |-> 0]

Detail(step, count, fromCache, error) ==
  [step |-> step, count |-> count, fromCache |-> fromCache, error |-> error]

\* isCacheValid of each adapter, for an entry that exists
\* (variant: the comparison the wrong way round, so that only old entries count)
tiiIsCacheValidInverted(timestamp, t) == (t - timestamp) > CACHE_TTL_MS
tiiIsCacheValid(timestamp, t) == (t - timestamp) < CACHE_TTL_MS
\* (variant: an entry whose age is exactly the TTL still counts)
webtrisIsCacheValidInclusive(timestamp, t) == (t - timestamp) <= CACHE_TTL_MS
webtrisIsCacheValid(timestamp, t) == (t - timestamp) < CACHE_TTL_MS
googleIsCacheValid(timestamp, t) == (t - timestamp) < CACHE_TTL_MS

\* Map.prototype.set
\* (variant: an entry that is there is kept, the first write wins)
CacheSetIfAbsent(cache, key, data, t) ==
  IF key \in DOMAIN cache THEN cache ELSE (key :> [data |-> data, timestamp |-> t]) @@ cache

CacheSet(cache, key, data, t) == (key :> [data |-> data, timestamp |-> t]) @@ cache

CachedAge(cache, key) == IF key \in DOMAIN cache THEN now - cache[key].timestamp ELSE -1

\* ---- the record of the adapter calls (observation only)

StartCall(c, adapter, key, cache, requests) ==
  [c EXCEPT !.calls = Append(@,
     [adapter |-> adapter, key |-> key, startedAt |-> now,
      cachedAge |-> CachedAge(cache, key), requests |-> requests,
      failed |-> FALSE, done |-> FALSE, cleared |-> FALSE, prev |-> c.last[adapter],
      result |-> NoResult])]

ReturnCall(c, result, failed) ==
  LET n == Len(c.calls)
      e == c.calls[n]
  IN  [c EXCEPT !.calls[n] = [e EXCEPT !.done = TRUE, !.result = result,
                                       !.failed = e.failed \/ failed],
                !.last[e.adapter] = [present |-> TRUE, key |-> e.key,
                                     failed |-> e.failed \/ failed, result |-> result]]

\* ---- fetchTrafficWithFallback, from one await to the next

normalizedCountry(country) == IF country # << >> THEN toUpperCase(country) ELSE ALL

\* server.js line 69
tiiApplicable(road, country) ==
  /\ normalizedCountry(country) \in {ALL, IE}
  /\ isIrishRoad(road) \/ toUpperCase(road) = M1

\* (variant: without the special case for M1, which isUKRoad takes for Irish)
webtrisApplicableByPattern(road, country) ==
  /\ normalizedCountry(country) \in {ALL, UK}
  /\ isUKRoad(road)

\* server.js line 86
webtrisApplicable(road, country) ==
  /\ normalizedCountry(country) \in {ALL, UK}
  /\ isUKRoad(road) \/ toUpperCase(road) = M1

\* server.js line 62
isLocalStreet(road, town) == town # << >> /\ ~TestMNAPrefix(road)

\* (variant: the fallback is not triggered by the free sources coming back empty)
shouldTryGoogleUnlessEmpty(hasFreeData, localStreet, preferred) ==
  localStreet \/ preferred

\* (variant: the prefer-commercial heuristic is ignored)
shouldTryGoogleIgnoringPreference(hasFreeData, localStreet, preferred) ==
  ~hasFreeData \/ localStreet

\* server.js line 105
shouldTryGoogle(hasFreeData, localStreet, preferred) ==
  ~hasFreeData \/ localStreet \/ preferred

\* server.js lines 112-114
countryName(country) ==
  LET nc == normalizedCountry(country)
  IN  IF nc = IE THEN <<"I", "r", "e", "l", "a", "n", "d">>
      ELSE IF nc = UK
           THEN <<"U", "n", "i", "t", "e", "d", " ", "K", "i", "n", "g", "d", "o", "m">>
      ELSE IF nc = ALL THEN << >>
      ELSE nc

Finish(q, c) == [c EXCEPT !.pc = "done"]

\* (variant: the error of an empty Google Maps result is not kept)
AfterGoogleDroppingError(q, c, r) ==
  LET res == c.results
      res1 == IF Len(r.data) > 0
              THEN [res EXCEPT !.data = @ \o r.data,
                               !.details = Append(@, Detail("Google Maps returned records",
                                                               Len(r.data), r.fromCache, Undefined))]
              ELSE [res EXCEPT !.details = Append(@, Detail("Google Maps returned no data",
                                                               0, FALSE, r.error))]
  IN  Finish(q, [c EXCEPT !.results = res1])

\* server.js lines 118-127
AfterGoogle(q, c, r) ==
  LET res == c.results
      res1 == IF Len(r.data) > 0
              THEN [res EXCEPT !.data = @ \o r.data,
                               !.details = Append(@, Detail("Google Maps returned records",
                                                               Len(r.data), r.fromCache, Undefined))]
              ELSE [res EXCEPT !.details = Append(@, Detail("Google Maps returned no data",
                                                               0, FALSE, r.error)),
                               !.errors = IF r.error # Undefined THEN Append(@, r.error) ELSE @]
  IN  Finish(q, [c EXCEPT !.results = res1])

\* fetchGoogleMapsTraffic up to its await: the missing key and the cache hit
\* return at once
googleImmediate(origin, destination) ==
  LET key == googleCacheKey(origin, destination)
  IN  IF ~apiKey
      THEN [returns |-> TRUE,
            result |-> Result(<< >>, FALSE, "Google Maps API Key not configured", -1)]
      ELSE IF key \in DOMAIN googleCache /\ googleIsCacheValid(googleCache[key].timestamp, now)
      THEN [returns |-> TRUE,
            result |-> Result(googleCache[key].data, TRUE, Undefined, googleCache[key].timestamp)]
      ELSE [returns |-> FALSE, result |-> NoResult]

\* fetchRoadTraffic lines 240-247: the retry with the alternative phrasing
retryWanted(r, town) == r.data = << >> /\ town # << >>

AfterGoogleFirst(q, c, r) ==
  IF retryWanted(r, q.town)
  THEN LET o == altOrigin(q.road, q.town)
           d == altDest(q.road, q.town)
           im == googleImmediate(o, d)
           c1 == StartCall(c, "GoogleMaps", googleCacheKey(o, d), googleCache,
                           IF im.returns THEN 0 ELSE 1)
       IN  IF im.returns
           THEN AfterGoogle(q, ReturnCall(c1, im.result, FALSE), im.result)
           ELSE [c1 EXCEPT !.pc = "google_alt"]
  ELSE AfterGoogle(q, c, r)

\* server.js lines 104-116 and fetchRoadTraffic lines 228-238
GoogleStage(q, c) ==
  IF shouldTryGoogle(Len(c.results.data) > 0, isLocalStreet(q.road, q.town),
                     isGoogleMapsPreferred(q.road, q.town, q.country))
  THEN LET res == [c.results EXCEPT
                     !.details = Append(@, Detail("Falling back to Google Maps", 0, FALSE, Undefined)),
                     !.fallbackUsed = TRUE,
                     !.sourcesUsed = Append(@, "GoogleMaps")]
           cn == countryName(q.country)
           o == roadTrafficOrigin(q.road, q.town, cn)
           d == roadTrafficDestination(q.road, q.town, cn)
           im == googleImmediate(o, d)
           c1 == StartCall([c EXCEPT !.results = res], "GoogleMaps", googleCacheKey(o, d),
                           googleCache, IF im.returns THEN 0 ELSE 1)
       IN  IF im.returns
           THEN AfterGoogleFirst(q, ReturnCall(c1, im.result, FALSE), im.result)
           ELSE [c1 EXCEPT !.pc = "google"]
  ELSE Finish(q, c)

\* (variant: the WebTRIS records are put in front of what is already there)
AfterWebTRISPrepending(q, c, r) ==
  LET res == [c.results EXCEPT !.sourcesUsed = Append(@, "WebTRIS-UK")]
      res1 == IF Len(r.data) > 0
              THEN [res EXCEPT !.data = r.data \o @,
                               !.details = Append(@, Detail("WebTRIS returned records",
                                                               Len(r.data), r.fromCache, Undefined))]
              ELSE [res EXCEPT !.details = Append(@, Detail("WebTRIS returned no data",
                                                               0, FALSE, r.error))]
  IN  GoogleStage(q, [c EXCEPT !.results = res1])

\* server.js lines 89-99
AfterWebTRIS(q, c, r) ==
  LET res == [c.results EXCEPT !.sourcesUsed = Append(@, "WebTRIS-UK")]
      res1 == IF Len(r.data) > 0
              THEN [res EXCEPT !.data = @ \o r.data,
                               !.details = Append(@, Detail("WebTRIS returned records",
                                                               Len(r.data), r.fromCache, Undefined))]
              ELSE [res EXCEPT !.details = Append(@, Detail("WebTRIS returned no data",
                                                               0, FALSE, r.error))]
  IN  GoogleStage(q, [c EXCEPT !.results = res1])

\* server.js lines 86-88 and fetchWebTRISTraffic lines 113-127
WebTRISStage(q, c) ==
  IF webtrisApplicable(q.road, q.country)
  THEN LET res == [c.results EXCEPT
                     !.details = Append(@, Detail("Trying WebTRIS (UK)", 0, FALSE, Undefined))]
           key == webtrisCacheKey(q.road)
           hit == key \in DOMAIN webtrisCache
                    /\ webtrisIsCacheValid(webtrisCache[key].timestamp, now)
           c1 == StartCall([c EXCEPT !.results = res], "WebTRIS-UK", key, webtrisCache,
                           IF hit THEN 0 ELSE 1)
       IN  IF hit
           THEN LET r == Result(webtrisCache[key].data, TRUE, Undefined,
                                webtrisCache[key].timestamp)
                IN  AfterWebTRIS(q, ReturnCall(c1, r, FALSE), r)
           ELSE [c1 EXCEPT !.pc = "webtris_sites"]
  ELSE GoogleStage(q, c)

\* (variant: a source is only listed when it brought records)
AfterTIIListedWithData(q, c, r) ==
  LET res == c.results
      res1 == IF Len(r.data) > 0
              THEN [res EXCEPT !.sourcesUsed = Append(@, "TII-Ireland"),
                               !.data = @ \o r.data,
                               !.details = Append(@, Detail("TII returned records",
                                                               Len(r.data), r.fromCache, Undefined))]
              ELSE [res EXCEPT !.details = Append(@, Detail("TII returned no data",
                                                               0, FALSE, r.error))]
  IN  WebTRISStage(q, [c EXCEPT !.results = res1])

\* server.js lines 72-82
AfterTII(q, c, r) ==
  LET res == [c.results EXCEPT !.sourcesUsed = Append(@, "TII-Ireland")]
      res1 == IF Len(r.data) > 0
              THEN [res EXCEPT !.data = @ \o r.data,
                               !.details = Append(@, Detail("TII returned records",
                                                               Len(r.data), r.fromCache, Undefined))]
              ELSE [res EXCEPT !.details = Append(@, Detail("TII returned no data",
                                                               0, FALSE, r.error))]
  IN  WebTRISStage(q, [c EXCEPT !.results = res1])

\* server.js lines 69-71 and fetchTIITraffic lines 65-83
TIIStage(q, c) ==
  IF tiiApplicable(q.road, q.country)
  THEN LET res == [c.results EXCEPT
                     !.details = Append(@, Detail("Trying TII (Ireland)", 0, FALSE, Undefined))]
           key == tiiCacheKey(q.road)
           hit == key \in DOMAIN tiiCache /\ tiiIsCacheValid(tiiCache[key].timestamp, now)
           c1 == StartCall([c EXCEPT !.results = res], "TII-Ireland", key, tiiCache,
                           IF hit THEN 0 ELSE 1)
       IN  IF hit
           THEN LET r == Result(tiiCache[key].data, TRUE, Undefined, tiiCache[key].timestamp)
                IN  AfterTII(q, ReturnCall(c1, r, FALSE), r)
           ELSE [c1 EXCEPT !.pc = "tii"]
  ELSE WebTRISStage(q, c)

\* ---- GET /traffic, lines 236-274 (extract=false)

CountLevel(data, level) ==
  Cardinality({i \in 1..Len(data) : data[i].congestionLevel = level})

SourceCountry(source) ==
  IF source = "TII-Ireland" THEN "IE" ELSE IF source = "WebTRIS-UK" THEN "UK" ELSE "Unknown"

buildResponse(q, res) ==
  [ status |-> 200,
    data |-> res.data,
    summary |->
      [ totalRecords |-> Len(res.data),
        sourcesUsed |-> res.sourcesUsed,
        fallbackTriggered |-> res.fallbackUsed,
        countries |-> IF q.country \in {<< >>, ALL}   \* line 192: country = 'ALL' by default
                      THEN {SourceCountry(res.data[i].source) : i \in 1..Len(res.data)}
                      ELSE {q.country},
        congestionBreakdown |->
          [ heavy |-> CountLevel(res.data, "heavy"),
            moderate |-> CountLevel(res.data, "moderate"),
            light |-> CountLevel(res.data, "light"),
            none |-> CountLevel(res.data, "none") ] ],
    routing |-> [sourcesTried |-> res.sourcesUsed, fallbackUsed |-> res.fallbackUsed,
                 details |-> res.details],
    errors |-> res.errors ]

\* ---- what each adapter does with the answer to its request

\* fetchTIITraffic lines 83-128
tiiHandle(o, road) ==
  IF o.kind = "error"
  THEN [result |-> Result(<< >>, FALSE, o.message, now), failed |-> TRUE, store |-> FALSE]
  ELSE IF o.kind = "notArray"
  THEN [result |-> Result(<< >>, FALSE, "situations.filter is not a function", now),
        failed |-> TRUE, store |-> FALSE]
  ELSE LET situations == IF o.kind = "ok" THEN o.situation ELSE << >>
           normalizedData == tiiNormalizeAll(tiiFilter(situations, road))
       IN  [result |-> Result(normalizedData, FALSE, Undefined, now),
            failed |-> FALSE, store |-> TRUE]

\* fetchSites lines 70-85: what fetchWebTRISTraffic gets as `sites`
fetchSites(o) ==
  IF o.kind = "ok" THEN [isArray |-> TRUE, sites |-> o.sites]
  ELSE IF o.kind = "notArray" THEN [isArray |-> FALSE, sites |-> << >>]
  ELSE [isArray |-> TRUE, sites |-> << >>]

\* fetchReports lines 93-106
fetchReports(o) == IF o.kind = "ok" THEN o.reports ELSE << >>

\* googleMapsAdapter line 160
googleStatusError(status) ==
  IF status = "ZERO_RESULTS" THEN "Google Maps API Error: ZERO_RESULTS"
  ELSE "Google Maps API Error: REQUEST_DENIED"

\* fetchGoogleMapsTraffic lines 151-205
googleHandle(o, origin, destination, road) ==
  IF o.kind = "error"
  THEN [result |-> Result(<< >>, FALSE, o.message, now),
        failed |-> TRUE, store |-> FALSE, success |-> FALSE]
  ELSE IF o.kind = "status"
  THEN [result |-> Result(<< >>, FALSE, googleStatusError(o.status), now),
        failed |-> TRUE, store |-> FALSE, success |-> FALSE]
  ELSE IF o.kind = "noRoutes"
  THEN [result |-> Result(<< >>, FALSE, Undefined, now),
        failed |-> FALSE, store |-> FALSE, success |-> FALSE]
  ELSE IF o.kind = "noLegs"
  THEN [result |-> Result(<< >>, FALSE, "Cannot read properties of undefined (reading '0')", now),
        failed |-> TRUE, store |-> FALSE, success |-> FALSE]
  ELSE [result |-> Result(<<normalizeGoogleMapsData(o.route, origin, destination, road)>>,
                          FALSE, Undefined, now),
        failed |-> FALSE, store |-> TRUE, success |-> TRUE]

\* "Keep only last 100 calls"
HISTORY_LIMIT == 100

\* (variant: the first 100 calls are kept, slice(0, 100))
trackAPICallKeepingFirst(history, origin, destination, success) ==
  LET h == Append(history, [timestamp |-> now, origin |-> origin,
                            destination |-> destination, success |-> success])
  IN  IF Len(h) > HISTORY_LIMIT THEN SubSeq(h, 1, HISTORY_LIMIT) ELSE h

\* trackAPICall: the history after the call
trackAPICall(history, origin, destination, success) ==
  LET h == Append(history, [timestamp |-> now, origin |-> origin,
                            destination |-> destination, success |-> success])
  IN  IF Len(h) > HISTORY_LIMIT THEN SubSeq(h, Len(h) - HISTORY_LIMIT + 1, Len(h)) ELSE h

\* ---- extractSegment, from its call to its only await and from there on

\* getCacheKey: `segment_${hash}` with a 32-bit hash of the text of the input;
\* the inputs of this model have different hashes, and the key is held as the
\* input it was computed from
llmCacheKey(trafficData) == trafficData

\* the options of the two callers in server.js (lines 218 and 379)
HandlerOptions == [useCache |-> TRUE, fallback |-> TRUE]

LLM_PROVIDER == "gemini"

\* getLLMConfig().error when LLM_API_KEY is not set, as callLLM throws it
NotConfigured == "LLM not configured: LLM_API_KEY not set"

\* one extractSegment call: `state` is "await" (callLLM is pending),
\* "resolved" or "rejected"; `failure` is the error its catch block caught, if
\* any, `order` its rank among the settled calls of its batch (0 while it is
\* pending) and `cleared` whether the caches were cleared while it was pending,
\* all three kept for observation
Resolved(trafficData, options, value) ==
  [input |-> trafficData, options |-> options, state |-> "resolved", value |-> value,
   error |-> Undefined, failure |-> Undefined, order |-> 0, cleared |-> FALSE]

Rejected(trafficData, options, message) ==
  [input |-> trafficData, options |-> options, state |-> "rejected", value |-> << >>,
   error |-> message, failure |-> Undefined, order |-> 0, cleared |-> FALSE]

Pending(trafficData, options) ==
  [input |-> trafficData, options |-> options, state |-> "await", value |-> << >>,
   error |-> Undefined, failure |-> Undefined, order |-> 0, cleared |-> FALSE]

Caught(task, message) == [task EXCEPT !.failure = message]

\* extractSegment lines 453-467
FallbackOr(trafficData, options, message, fallbackResult) ==
  IF fallbackResult.threw
  THEN Rejected(trafficData, options, fallbackResult.error)
  ELSE Resolved(trafficData, options,
                [extractionError |-> message, fallback |-> TRUE] @@ fallbackResult.value)

extractCatch(trafficData, options, message) ==
  Caught(IF options.fallback
         THEN FallbackOr(trafficData, options, message, createFallbackResult(trafficData))
         ELSE Rejected(trafficData, options, message),
         message)

\* extractSegment lines 409-426, with callLLM's refusal when nothing is configured
extractSegmentStart(trafficData, options, cache, enabled, t) ==
  LET cacheKey == llmCacheKey(trafficData)
  IN  IF /\ options.useCache
         /\ cacheKey \in DOMAIN cache
         /\ t - cache[cacheKey].timestamp < CACHE_TTL
      THEN Resolved(trafficData, options, [cached |-> TRUE] @@ cache[cacheKey].data)
      ELSE IF ~enabled THEN extractCatch(trafficData, options, NotConfigured)
      ELSE Pending(trafficData, options)

ExtractFields == {"road", "direction", "segment", "landmark", "congestion", "speed", "incidentType"}

\* parseLLMResponse; the text of the model is [complete, fields]: whether JSON.parse
\* accepts its text, and the value (or null) of each field that the text holds
parseLLMResponse(llmResponse) ==
  IF llmResponse.complete
  THEN [isNull |-> FALSE, value |-> [rawExtracted |-> TRUE] @@ llmResponse.fields]
  ELSE IF \E f \in ExtractFields : IsSome(llmResponse.fields[f])
  THEN [isNull |-> FALSE,
        value |-> [rawExtracted |-> TRUE, partial |-> TRUE] @@ llmResponse.fields]
  ELSE [isNull |-> TRUE, value |-> << >>]

\* extractSegment lines 426-467: callLLM has settled with o, a thrown error or
\* the text of the model; `store` says whether the result is cached
ExtractedResult(extracted) ==
  [humanReadable |-> generateHumanReadable(extracted), cached |-> FALSE,
   llmProvider |-> LLM_PROVIDER] @@ extracted

\* (variant: the result of the catch block is cached as well)
extractSegmentSettleStoringFallback(task, o) ==
  IF o.kind = "text" /\ ~parseLLMResponse(o.text).isNull
  THEN [task |-> Resolved(task.input, task.options,
                          ExtractedResult(parseLLMResponse(o.text).value)),
        store |-> task.options.useCache]
  ELSE LET caught == extractCatch(task.input, task.options,
                                  IF o.kind = "error" THEN o.message
                                  ELSE "Failed to extract segment data from LLM response")
       IN  [task |-> caught,
            store |-> task.options.useCache /\ caught.state = "resolved"]

extractSegmentSettle(task, o) ==
  IF o.kind = "text" /\ ~parseLLMResponse(o.text).isNull
  THEN [task |-> Resolved(task.input, task.options,
                          ExtractedResult(parseLLMResponse(o.text).value)),
        store |-> task.options.useCache]
  ELSE [task |-> extractCatch(task.input, task.options,
                              IF o.kind = "error" THEN o.message
                              ELSE "Failed to extract segment data from LLM response"),
        store |-> FALSE]

Settled(task) == task.state # "await"
AllSettled(ts) == \A i \in 1..Len(ts) : Settled(ts[i])
SettledCount(ts) == Cardinality({i \in 1..Len(ts) : Settled(ts[i])})

\* the calls that settle before the first await settle in the order of the calls
RECURSIVE Ranked(_, _)
Ranked(ts, done) ==
  IF ts = << >> THEN << >>
  ELSE IF Settled(Head(ts))
       THEN <<[Head(ts) EXCEPT !.order = done + 1]>> \o Ranked(Tail(ts), done + 1)
       ELSE <<Head(ts)>> \o Ranked(Tail(ts), done)

\* extractSegmentsBatch line 531: records.map starts one call per record
batchStart(records, options, cache, enabled, t) ==
  Ranked([i \in 1..Len(records) |->
            extractSegmentStart(records[i], options, cache, enabled, t)], 0)

SegmentFailed == <<"Segment extraction failed">>

\* (variant: the outputs are collected as the calls settle)
batchOutputAsSettled(ts) ==
  [k \in 1..Len(ts) |->
     LET i == CHOOSE j \in 1..Len(ts) : ts[j].order = k
         task == ts[i]
     IN  IF task.state = "resolved"
         THEN [segment |-> Some(task.value), humanReadable |-> task.value.humanReadable]
                @@ task.input
         ELSE [segment |-> None, humanReadable |-> SegmentFailed,
               extractionError |-> task.error] @@ task.input]

\* extractSegmentsBatch lines 530-551: what Promise.all resolves with
batchOutput(ts) ==
  [i \in 1..Len(ts) |->
     LET task == ts[i]
     IN  IF task.state = "resolved"
         THEN [segment |-> Some(task.value), humanReadable |-> task.value.humanReadable]
                @@ task.input
         ELSE [segment |-> None, humanReadable |-> SegmentFailed,
               extractionError |-> task.error] @@ task.input]

\* GET /traffic lines 216-223 and 254-268: the body with the enriched records
ExtractionInfo(res, enhancedData) ==
  [ processed |-> Len(res.data),
    cached |-> Cardinality({i \in 1..Len(enhancedData) :
                              /\ IsSome(enhancedData[i].segment)
                              /\ "cached" \in DOMAIN enhancedData[i].segment[1]
                              /\ enhancedData[i].segment[1].cached}) ]

WithExtraction(q, res, enhancedData) ==
  [data |-> enhancedData, extraction |-> ExtractionInfo(res, enhancedData)]
    @@ buildResponse(q, res)

buildExtractResponse(q, res, ts) == WithExtraction(q, res, batchOutput(ts))

\* POST /extract lines 379-394
extractResponse(task) ==
  IF task.state = "resolved"
  THEN [status |-> 200, input |-> task.input.text, extracted |-> task.value]
  ELSE [status |-> 500, error |-> "Extraction failed", message |-> task.error]

\* ----------------------------------------------------------------- actions

Ctx == [pc |-> pc, results |-> results, calls |-> calls, last |-> last]

\* the step ends with the request suspended at c.pc or, at "done", with
\* lines 212-274 of the handler: the records are enriched when ?extract=true
CommitEnriched(q, c, enrich, batch) ==
  /\ results' = c.results
  /\ calls' = c.calls
  /\ last' = c.last
  /\ tasks' = IF enrich THEN batch ELSE tasks
  /\ pc' = IF enrich /\ ~AllSettled(batch) THEN "extract" ELSE c.pc
  /\ response' = IF c.pc # "done" THEN NoResponse
                 ELSE IF ~enrich THEN buildResponse(q, c.results)
                 ELSE IF AllSettled(batch) THEN buildExtractResponse(q, c.results, batch)
                 ELSE NoResponse

Commit(q, c) ==
  CommitEnriched(q, c, c.pc = "done" /\ q.extract /\ Len(c.results.data) > 0,
                 batchStart(c.results.data, HandlerOptions, llmCache, llmEnabled, now))

\* the state of a process that has just started, with or without LLM_API_KEY
InitWith(keys, llm, scripts) ==
  /\ now = 0
  /\ apiKey \in keys
  /\ llmEnabled = llm
  /\ llmCache = << >>
  /\ tasks = << >>
  /\ route = << >>
  /\ report \in {NoJunctionReport(script) : script \in scripts}
  /\ produced = << >>
  /\ fetches = << >>
  /\ writes = << >>
  /\ tiiCache = << >>
  /\ webtrisCache = << >>
  /\ googleCache = << >>
  /\ apiCallCount = 0
  /\ apiCallHistory = << >>
  /\ nreq = 0
  /\ pc = "idle"
  /\ query = [road |-> M1, country |-> ALL, town |-> << >>, extract |-> FALSE]
  /\ results = EmptyResults
  /\ sites = << >>
  /\ response = NoResponse
  /\ calls = << >>
  /\ last = [a \in Adapters |-> NoFetch]

\* the enrichment is optional: a process without LLM_API_KEY
Init == InitWith(BOOLEAN, FALSE, {Monitor})

\* GET /traffic up to the first network await
BeginRequest(q) ==
  /\ pc \in {"idle", "done"}
  /\ nreq' = nreq + 1
  /\ query' = q
  /\ Commit(q, TIIStage(q, [pc |-> "idle", results |-> EmptyResults,
                            calls |-> << >>, last |-> last]))
  /\ sites' = << >>
  /\ UNCHANGED <<now, apiKey, tiiCache, webtrisCache, googleCache, apiCallCount, apiCallHistory,
                 llmEnabled, llmCache, sideVars>>

\* GET /traffic?road=..&country=..&town=..
StartRequest(road, country, town) ==
  BeginRequest([road |-> road, country |-> country, town |-> town, extract |-> FALSE])

\* GET /traffic?road=..&country=..&town=..&extract=true
StartRequestExtract(road, country, town) ==
  BeginRequest([road |-> road, country |-> country, town |-> town, extract |-> TRUE])

\* the TII request settles
TIIResponse(o) ==
  /\ pc = "tii"
  /\ LET h == tiiHandle(o, query.road)
     IN  /\ tiiCache' = IF h.store
                        THEN CacheSet(tiiCache, tiiCacheKey(query.road), h.result.data, now)
                        ELSE tiiCache
         /\ Commit(query, AfterTII(query, ReturnCall(Ctx, h.result, h.failed), h.result))
  /\ UNCHANGED <<now, apiKey, webtrisCache, googleCache, apiCallCount, apiCallHistory,
                 nreq, query, sites, llmEnabled, llmCache, sideVars>>

MarkCall(c, requests, failed) ==
  LET n == Len(c.calls)
  IN  [c EXCEPT !.calls[n] = [@ EXCEPT !.requests = requests, !.failed = @ \/ failed]]

\* the WebTRIS /sites request settles
WebTRISSitesResponse(o) ==
  /\ pc = "webtris_sites"
  /\ LET f == fetchSites(o)
         failed == o.kind # "ok"
     IN  IF ~f.isArray
         THEN \* sites.map throws; the catch of line 161
              LET r == Result(<< >>, FALSE, "sites.map is not a function", now)
              IN  /\ Commit(query, AfterWebTRIS(query, ReturnCall(Ctx, r, TRUE), r))
                  /\ sites' = << >>
         ELSE IF Len(f.sites) = 0
         THEN LET r == Result(<< >>, FALSE, Undefined, now)
              IN  /\ Commit(query, AfterWebTRIS(query, ReturnCall(Ctx, r, failed), r))
                  /\ sites' = << >>
         ELSE /\ Commit(query, [MarkCall(Ctx, 2, failed) EXCEPT !.pc = "webtris_reports"])
              /\ sites' = f.sites
  /\ UNCHANGED <<now, apiKey, tiiCache, webtrisCache, googleCache, apiCallCount,
                 apiCallHistory, nreq, query, llmEnabled, llmCache, sideVars>>

\* the WebTRIS /reports/current request settles
WebTRISReportsResponse(o) ==
  /\ pc = "webtris_reports"
  /\ LET data == webtrisMerge(sites, fetchReports(o))
         r == Result(data, FALSE, Undefined, now)
     IN  /\ webtrisCache' = CacheSet(webtrisCache, webtrisCacheKey(query.road), data, now)
         /\ Commit(query, AfterWebTRIS(query, ReturnCall(Ctx, r, o.kind # "ok"), r))
  /\ sites' = << >>
  /\ UNCHANGED <<now, apiKey, tiiCache, googleCache, apiCallCount, apiCallHistory, nreq, query,
                 llmEnabled, llmCache, sideVars>>

\* the Directions request of fetchRoadTraffic's first or second call settles
GoogleResponse(o) ==
  /\ pc \in {"google", "google_alt"}
  /\ LET cn == countryName(query.country)
         origin == IF pc = "google" THEN roadTrafficOrigin(query.road, query.town, cn)
                   ELSE altOrigin(query.road, query.town)
         destination == IF pc = "google" THEN roadTrafficDestination(query.road, query.town, cn)
                        ELSE altDest(query.road, query.town)
         h == googleHandle(o, origin, destination, query.road)
         c == ReturnCall(Ctx, h.result, h.failed)
     IN  /\ googleCache' = IF h.store
                           THEN CacheSet(googleCache, googleCacheKey(origin, destination),
                                         h.result.data, now)
                           ELSE googleCache
         /\ apiCallCount' = apiCallCount + 1
         /\ apiCallHistory' = trackAPICall(apiCallHistory, origin, destination, h.success)
         /\ Commit(query, IF pc = "google" THEN AfterGoogleFirst(query, c, h.result)
                          ELSE AfterGoogle(query, c, h.result))
  /\ UNCHANGED <<now, apiKey, tiiCache, webtrisCache, nreq, query, sites,
                 llmEnabled, llmCache, sideVars>>

\* the LLM request of the i-th extractSegment call settles
TasksSettled(ts) ==
  /\ tasks' = ts
  /\ pc' = IF AllSettled(ts) THEN "done" ELSE pc
  /\ response' = IF ~AllSettled(ts) THEN NoResponse
                 ELSE IF pc = "extract" THEN buildExtractResponse(query, results, ts)
                 ELSE extractResponse(ts[1])

TaskSettled(i, s) ==
  /\ TasksSettled([tasks EXCEPT ![i] = [s.task EXCEPT !.order = SettledCount(tasks) + 1,
                                                      !.cleared = tasks[i].cleared]])
  /\ llmCache' = IF s.store
                 THEN CacheSet(llmCache, llmCacheKey(tasks[i].input), s.task.value, now)
                 ELSE llmCache

LLMResponse(i, o) ==
  /\ pc \in {"extract", "extract_text"}
  /\ i \in 1..Len(tasks)
  /\ tasks[i].state = "await"
  /\ TaskSettled(i, extractSegmentSettle(tasks[i], o))
  /\ UNCHANGED <<now, apiKey, tiiCache, webtrisCache, googleCache, apiCallCount, apiCallHistory,
                 nreq, query, results, sites, calls, last, llmEnabled, sideVars>>

\* POST /extract with a text body, up to the await of callLLM; ExtractCalled
\* is the call of extractSegment with any options by a caller that treats the
\* promise as this handler does
TextStarted(ts) ==
  /\ tasks' = ts
  /\ pc' = IF AllSettled(ts) THEN "done" ELSE "extract_text"
  /\ response' = IF AllSettled(ts) THEN extractResponse(ts[1]) ELSE NoResponse

ExtractCalled(trafficData, options) ==
  /\ pc \in {"idle", "done"}
  /\ nreq' = nreq + 1
  /\ TextStarted(batchStart(<<trafficData>>, options, llmCache, llmEnabled, now))
  /\ results' = EmptyResults
  /\ calls' = << >>
  /\ sites' = << >>
  /\ UNCHANGED <<now, apiKey, tiiCache, webtrisCache, googleCache, apiCallCount, apiCallHistory,
                 query, last, llmEnabled, llmCache, sideVars>>

StartExtract(text) == ExtractCalled([text |-> text], HandlerOptions)

\* the calls that are pending are marked (observation only)
MarkCleared ==
  /\ calls' = [i \in 1..Len(calls) |->
                 IF calls[i].done THEN calls[i] ELSE [calls[i] EXCEPT !.cleared = TRUE]]
  /\ tasks' = [i \in 1..Len(tasks) |->
                 IF Settled(tasks[i]) THEN tasks[i] ELSE [tasks[i] EXCEPT !.cleared = TRUE]]
  /\ last' = [a \in Adapters |-> NoFetch]

\* (variant: the enrichment cache is left as it is)
ClearCacheAdaptersOnly ==
  /\ tiiCache' = << >>
  /\ webtrisCache' = << >>
  /\ googleCache' = << >>
  /\ MarkCleared
  /\ UNCHANGED <<now, apiKey, apiCallCount, apiCallHistory, nreq, pc, query, results,
                 sites, response, llmEnabled, llmCache, sideVars>>

\* POST /cache/clear: clearTIICache, clearWebTRISCache, clearGoogleCache and
\* clearLLMCache, one after the other with no await between them
ClearCache ==
  /\ tiiCache' = << >>
  /\ webtrisCache' = << >>
  /\ googleCache' = << >>
  /\ llmCache' = << >>
  /\ MarkCleared
  /\ UNCHANGED <<now, apiKey, apiCallCount, apiCallHistory, nreq, pc, query, results,
                 sites, response, llmEnabled, sideVars>>

\* time passes
Tick ==
  /\ pc \in {"idle", "done"}
  /\ now + TickMs <= MaxTicks * TickMs
  /\ now' = now + TickMs
  /\ UNCHANGED <<apiKey, tiiCache, webtrisCache, googleCache, apiCallCount, apiCallHistory,
                 nreq, pc, query, results, sites, response, calls, last,
                 llmEnabled, llmCache, tasks, sideVars>>

\* a client polls /traffic while time passes and the caches are cleared
Next ==
  \/ \E q \in PollQueries : nreq < MaxRequests /\ StartRequest(q.road, q.country, q.town)
  \/ \E o \in PollTIIOutcomes : TIIResponse(o)
  \/ \E o \in PollSitesOutcomes : WebTRISSitesResponse(o)
  \/ \E o \in ReportsOutcomes : WebTRISReportsResponse(o)
  \/ \E o \in PollGoogleOutcomes : GoogleResponse(o)
  \/ ClearCache
  \/ Tick

Spec == Init /\ [][Next]_vars

\* the Directions answers of the first request: also a route of no length, as
\* between an origin and a destination that are the same place
FirstGoogleOutcomes ==
  GoogleOutcomes
    \cup [kind : {"ok"}, route : { [distance |-> 0, duration |-> 0, duration_in_traffic |-> 0] }]

\* the first request a fresh process serves, for every query and every answer
NextFirst ==
  \/ \E road \in Roads, country \in Countries, town \in Towns :
       nreq = 0 /\ StartRequest(road, country, town)
  \/ \E o \in TIIOutcomes : TIIResponse(o)
  \/ \E o \in SitesOutcomes : WebTRISSitesResponse(o)
  \/ \E o \in ReportsOutcomes : WebTRISReportsResponse(o)
  \/ \E o \in FirstGoogleOutcomes : GoogleResponse(o)

SpecFirst == Init /\ [][NextFirst]_vars

\* ---- enrichment: the inputs

NullFields == [f \in ExtractFields |-> None]

\* the texts a client posts to /extract: one that every pattern of the
\* fallback extractor matches, one that none matches
ExtractTexts ==
  { <<"M", "1", " ", "N", "o", "r", "t", "h", " ", "h", "e", "a", "v", "y", " ", "t", "r", "a", "f", "f", "i", "c", " ", "a", "t", " ", "4", "8", " ", "m", "p", "h">>,
    <<"n", "o", " ", "n", "e", "w", "s">> }

\* error.message of callLLM: timeout, 401/403, 429, another status, and
\* anything else (a connection error, a body of another shape)
LLMErrors ==
  { "LLM API timeout after 30s",
    "LLM API authentication failed: Invalid API key for gemini",
    "LLM API rate limit exceeded for gemini",
    "LLM API error (500): {}",
    "LLM API call failed: Invalid gemini response format" }

\* the texts of the model: a JSON object with fields, the object {}, a
\* truncated object in which `road` can still be read, and no JSON at all
LLMTexts ==
  { [complete |-> TRUE,
     fields |-> [NullFields EXCEPT !.road = Some(M1),
                                   !.segment = Some(<<"J", "1", "-", "J", "2">>)]],
    [complete |-> TRUE, fields |-> NullFields],
    [complete |-> FALSE, fields |-> [NullFields EXCEPT !.road = Some(M1)]],
    [complete |-> FALSE, fields |-> NullFields] }

LLMOutcomes == [kind : {"error"}, message : LLMErrors] \cup [kind : {"text"}, text : LLMTexts]

\* the requests with ?extract=true: R132 in Ireland (the TII record, or the
\* Google Maps record when TII has none) and A40 in the UK (one WebTRIS record
\* per site)
ExtractQueries ==
  { [road |-> R132, country |-> IE, town |-> << >>],
    [road |-> A40, country |-> UK, town |-> << >>] }

\* what the providers answer to them
EnrichTIIOutcomes == {o \in TIIOutcomes : o.kind \in {"noSituation", "ok"}}
EnrichSitesOutcomes == {o \in SitesOutcomes : o.kind = "ok" /\ o.sites # << >>}
EnrichReportsOutcomes == {o \in ReportsOutcomes : o.kind = "ok"}
EnrichGoogleOutcomes == {o \in GoogleOutcomes : o.kind = "ok"}

\* and the LLM: a timeout, a JSON object with fields, no JSON at all
EnrichLLMOutcomes ==
  {o \in LLMOutcomes :
     \/ o.kind = "error" /\ o.message = "LLM API timeout after 30s"
     \/ o.kind = "text" /\ o.text.complete /\ o.text.fields # NullFields
     \/ o.kind = "text" /\ ~o.text.complete /\ o.text.fields = NullFields}

\* how many calls a batch can hold in this model: the WebTRIS sites
MaxBatch == 2

\* how many requests the clients of the enrichment send
MaxEnrichRequests == 2

\* a process with or without LLM_API_KEY (and with GOOGLE_MAPS_API_KEY)
InitEnrich == \E llm \in BOOLEAN : InitWith({TRUE}, llm, {Monitor})

\* clients ask for enriched records while time passes and the caches are
\* cleared
NextEnrich ==
  \/ \E q \in ExtractQueries :
       nreq < MaxEnrichRequests /\ StartRequestExtract(q.road, q.country, q.town)
  \/ \E o \in EnrichTIIOutcomes : TIIResponse(o)
  \/ \E o \in EnrichSitesOutcomes : WebTRISSitesResponse(o)
  \/ \E o \in EnrichReportsOutcomes : WebTRISReportsResponse(o)
  \/ \E o \in EnrichGoogleOutcomes : GoogleResponse(o)
  \/ \E i \in 1..MaxBatch, o \in EnrichLLMOutcomes : LLMResponse(i, o)
  \/ ClearCache
  \/ Tick

SpecEnrich == InitEnrich /\ [][NextEnrich]_vars

\* the first enrichment a fresh process is asked for, a text or the records
\* of a request, for every answer of the LLM
NextExtractFirst ==
  \/ \E q \in ExtractQueries :
       nreq = 0 /\ StartRequestExtract(q.road, q.country, q.town)
  \/ \E text \in ExtractTexts : nreq = 0 /\ StartExtract(text)
  \/ \E o \in EnrichTIIOutcomes : TIIResponse(o)
  \/ \E o \in EnrichSitesOutcomes : WebTRISSitesResponse(o)
  \/ \E o \in EnrichReportsOutcomes : WebTRISReportsResponse(o)
  \/ \E o \in EnrichGoogleOutcomes : GoogleResponse(o)
  \/ \E i \in 1..MaxBatch, o \in LLMOutcomes : LLMResponse(i, o)

SpecExtractFirst == InitEnrich /\ [][NextExtractFirst]_vars

\* ---- the junction monitor

RouteChecked(checked, built) ==
  /\ route' = checked
  /\ report' = IF Len(checked) = Len(RouteSegments) THEN built ELSE report

\* checkRoute of m1-junction-monitor.js: the request of the next segment
\* settles; after the last one handleTrafficCheck builds the report
CheckSegment(o) ==
  /\ report.script = Monitor
  /\ Len(route) < Len(RouteSegments)
  /\ RouteChecked(Append(route, checkSegment(RouteSegments[Len(route) + 1], o)),
                  generateReport(Append(route, checkSegment(RouteSegments[Len(route) + 1], o))))
  /\ UNCHANGED <<now, apiKey, tiiCache, webtrisCache, googleCache, apiCallCount, apiCallHistory,
                 nreq, pc, query, results, sites, response, calls, last,
                 llmEnabled, llmCache, tasks, produced, fetches, writes>>

\* main of check-m1-traffic.js: the same loop
ScriptSegment(o) ==
  /\ report.script = Script
  /\ Len(route) < Len(RouteSegments)
  /\ RouteChecked(Append(route, scriptSegment(RouteSegments[Len(route) + 1], o)),
                  scriptReport(Append(route, scriptSegment(RouteSegments[Len(route) + 1], o))))
  /\ UNCHANGED <<now, apiKey, tiiCache, webtrisCache, googleCache, apiCallCount, apiCallHistory,
                 nreq, pc, query, results, sites, response, calls, last,
                 llmEnabled, llmCache, tasks, produced, fetches, writes>>

\* either program, started once
InitJunction == InitWith({TRUE}, FALSE, {Monitor, Script})

NextJunction ==
  \/ \E o \in SegmentOutcomes : CheckSegment(o)
  \/ \E o \in SegmentOutcomes : ScriptSegment(o)

SpecJunction == InitJunction /\ [][NextJunction]_vars

\* ------------------------------------------------------------------ claims

CallIndices == 1..Len(calls)
FreeAdapters == {"TII-Ireland", "WebTRIS-UK"}

\* ---- C1
\* C1: in each adapter, when a network step of a fetch fails (timeout,
\* connection error, non-2xx status, malformed payload) the adapter resolves
\* with data = [] and a non-empty error string.
C1_FailedStepResolvesWithError ==
  \A i \in CallIndices :
    calls[i].done /\ calls[i].failed
      => calls[i].result.data = << >> /\ calls[i].result.error # Undefined

\* ---- C2
\* a fetch made straight after a fetch of the same adapter and key that
\* completed without error (no request of it failed, no error in its result),
\* while the time since that fetch's data was captured is below the TTL and
\* the cache was not cleared in between
FollowsCleanFetch(e) ==
  /\ e.prev.present
  /\ e.prev.key = e.key
  /\ ~e.prev.failed
  /\ e.prev.result.error = Undefined
  /\ e.startedAt - e.prev.result.timestamp < CACHE_TTL_MS

ServedFromCache(e) ==
  /\ e.done
  /\ e.result.fromCache
  /\ e.result.data = e.prev.result.data
  /\ e.requests = 0

\* C2 (as stated): whatever the first fetch returned, an empty record list
\* included, the second fetch returns the identical data with fromCache = true
\* and issues no network call.
C2_RoundTripWhateverReturned ==
  \A i \in CallIndices : FollowsCleanFetch(calls[i]) => ServedFromCache(calls[i])

\* C2 (amended): the round trip holds when the first fetch left a cache entry:
\* for TII whatever it returned, an empty list included; for WebTRIS and Google
\* Maps when it returned at least one record.
C2_RoundTripWhenStored ==
  \A i \in CallIndices :
    /\ FollowsCleanFetch(calls[i])
    /\ calls[i].adapter = "TII-Ireland" \/ calls[i].prev.result.data # << >>
    => ServedFromCache(calls[i])

\* a TII fetch served from the entry an earlier fetch stored for an empty list
C2_Witness ==
  \E i \in CallIndices :
    /\ calls[i].adapter = "TII-Ireland"
    /\ FollowsCleanFetch(calls[i])
    /\ calls[i].prev.result.data = << >>
    /\ ServedFromCache(calls[i])

\* ---- C3
\* C3: in every adapter an entry whose age is at least CACHE_TTL_MS is never
\* returned: the fetch goes to the network; and every result with
\* fromCache = true carries data captured less than CACHE_TTL_MS before.
C3_ExpiredEntryNeverServed ==
  \A i \in CallIndices :
    /\ calls[i].cachedAge >= CACHE_TTL_MS
         => calls[i].requests >= 1 /\ ~calls[i].result.fromCache
    /\ calls[i].result.fromCache
         => /\ calls[i].result.timestamp >= 0
            /\ calls[i].startedAt - calls[i].result.timestamp < CACHE_TTL_MS

\* a WebTRIS fetch that found an entry of exactly the TTL's age and has asked
\* the network again
C3_Witness ==
  \E i \in CallIndices :
    /\ calls[i].adapter = "WebTRIS-UK"
    /\ calls[i].cachedAge = CACHE_TTL_MS
    /\ calls[i].done
    /\ calls[i].requests >= 1


\* ---- observations on one request

Tried(adapter) == \E i \in CallIndices : calls[i].adapter = adapter
FreeCalls == {i \in CallIndices : calls[i].adapter \in FreeAdapters}
GoogleCalls == {i \in CallIndices : calls[i].adapter = "GoogleMaps"}
NoFreeRecords == \A i \in FreeCalls : calls[i].result.data = << >>
SomeFreeRecords == \E i \in FreeCalls : calls[i].result.data # << >>
TimesIn(seq, x) == Cardinality({k \in 1..Len(seq) : seq[k] = x})

\* the queries, read off the patterns of the source by hand:
\* roads of Roads that do not start with M, N or A and a digit
StreetLikeRoads == {R132, B12, CorkWay, Quay}
LocalStreetQuery == query.town # << >> /\ query.road \in StreetLikeRoads
\* roads of Roads with one of street, road, avenue, lane, drive, way, boulevard
NamedLikeStreets == {CorkWay}
PreferCommercialQuery ==
  LocalStreetQuery \/ query.country = <<"U", "S">> \/ query.road \in NamedLikeStreets
\* roads of Roads that isIrishRoad and isUKRoad accept
IrishLikeRoads == {M1, <<"m", "1">>, <<"M", "5", "0">>, <<"M", "2", "5">>, R132, CorkWay}
UKLikeRoads == {<<"M", "2", "5">>, A40, B12}

\* ---- C4
\* C4: when every free adapter that was tried returned an empty data array (or
\* none was applicable), the result has fallbackUsed = true and the commercial
\* adapter was invoked exactly once, making at most two Google Maps requests
\* (the first, and one retry with the alternative phrasing).
C4_FallbackWhenFreeSourcesEmpty ==
  pc = "done" /\ NoFreeRecords
    => /\ results.fallbackUsed
       /\ TimesIn(results.sourcesUsed, "GoogleMaps") = 1
       /\ Cardinality(GoogleCalls) \in {1, 2}
       /\ \A i \in GoogleCalls : calls[i].requests <= 1
       /\ apiCallCount <= 2
       /\ Cardinality(GoogleCalls) = 2
            => \E i, j \in GoogleCalls :
                 /\ i < j
                 /\ calls[i].result.data = << >>
                 /\ query.town # << >>
                 /\ calls[j].key = googleCacheKey(altOrigin(query.road, query.town),
                                                  altDest(query.road, query.town))

\* both free adapters came back empty and Google Maps was asked twice
C4_Witness ==
  /\ pc = "done"
  /\ Tried("TII-Ireland") /\ Tried("WebTRIS-UK")
  /\ NoFreeRecords
  /\ results.fallbackUsed
  /\ apiCallCount = 2

C6_GoogleOnlyWithoutFreeData ==
  SomeFreeRecords => \A i \in GoogleCalls : calls[i].requests = 0

\* ---- C7
\* an adapter call that failed: every request it made failed, or it resolved
\* with an error without making one
WhollyFailed(e) ==
  /\ e.done
  /\ \/ e.requests = 1 /\ e.failed
     \/ e.requests = 0 /\ e.result.error # Undefined

C8_EveryFailureInErrors ==
  pc = "done"
    => /\ Len(results.errors) >= Cardinality({i \in CallIndices : calls[i].failed})
       /\ \A i \in CallIndices :
            calls[i].failed /\ calls[i].result.error # Undefined
              => /\ \E k \in 1..Len(results.errors) : results.errors[k] = calls[i].result.error
                 /\ \E k \in 1..Len(results.details) :
                      results.details[k].error = calls[i].result.error

\* ---- C9
\* C9: for road M1, country IE, when TII returns one record with
\* travelTimeMinutes = 28 and freeFlowTimeMinutes = 22, the record has
\* delayMinutes = 6 and congestionLevel "moderate", and the summary's
\* congestionBreakdown.moderate is 1.
C9_M1ModerateScenario ==
  \A i \in CallIndices :
    /\ pc = "done"
    /\ query.road = M1 /\ query.country = IE
    /\ calls[i].adapter = "TII-Ireland"
    /\ Len(calls[i].result.data) = 1
    /\ calls[i].result.data[1].travelTimeMinutes = Tenths(28)
    /\ calls[i].result.data[1].freeFlowTimeMinutes = Tenths(22)
    => /\ calls[i].result.data[1].delayMinutes = Tenths(6)
       /\ calls[i].result.data[1].congestionLevel = "moderate"
       /\ response.summary.congestionBreakdown.moderate = 1

\* ---- C10
\* C10: the ambiguous road M1 is resolved by the country alone: with IE the
\* WebTRIS adapter is not invoked, with UK the TII adapter is not invoked, with
\* ALL or no country both are; and for any road, ALL invokes every free adapter
\* whose road predicate matches, not only the first.
C10_CountryDecidesForM1 ==
  /\ toUpperCase(query.road) = M1
       => /\ query.country \in {IE, <<"i", "e">>} => ~Tried("WebTRIS-UK")
          /\ query.country = UK => ~Tried("TII-Ireland")
          /\ pc = "done" /\ query.country \in {ALL, << >>}
               => Tried("TII-Ireland") /\ Tried("WebTRIS-UK")
  /\ pc = "done" /\ query.country \in {ALL, << >>}
       => /\ query.road \in IrishLikeRoads => Tried("TII-Ireland")
          /\ query.road \in UKLikeRoads => Tried("WebTRIS-UK")

\* M1 without a country: both free adapters were invoked
C10_Witness ==
  /\ pc = "done"
  /\ query.road = M1
  /\ query.country = << >>
  /\ Tried("TII-Ireland") /\ Tried("WebTRIS-UK")


TaskIndices == 1..Len(tasks)

\* ---- C11
\* C11: extractSegment called with fallback enabled never rejects: whatever
\* the input (a text or a record object) and whatever the enrichment failure
\* (backend not configured, timeout, non-2xx status, unparseable response), it
\* resolves with a result that carries fallback: true and rawExtracted: false.
C11_FallbackAlwaysResolves ==
  \A i \in TaskIndices :
    tasks[i].options.fallback /\ tasks[i].failure # Undefined
      => /\ tasks[i].state = "resolved"
         /\ "fallback" \in DOMAIN tasks[i].value
         /\ tasks[i].value.fallback
         /\ ~tasks[i].value.rawExtracted

\* ---- C12
\* the request with ?extract=true has been answered with the output of the batch
BatchAnswered == pc = "done" /\ query.extract /\ "extraction" \in DOMAIN response

\* the fields that extractSegmentsBatch adds to a record
AddedFields == {"segment", "humanReadable", "extractionError"}

\* C12: extractSegmentsBatch never rejects and resolves with exactly one
\* output per input record, in input order whatever the order in which the
\* concurrent extractSegment calls settle; a record whose call fails becomes
\* an error placeholder (segment null, extractionError set) and every other
\* record carries the result of its own call.
C12_BatchKeepsOrderAndIsolatesFailures ==
  BatchAnswered
    => /\ response.status = 200
       /\ Len(response.data) = Len(results.data)
       /\ Len(tasks) = Len(results.data)
       /\ \A i \in 1..Len(results.data) :
            /\ tasks[i].input = results.data[i]
            /\ \A f \in DOMAIN results.data[i] \ AddedFields :
                 response.data[i][f] = results.data[i][f]
            /\ tasks[i].state = "rejected"
                 => /\ response.data[i].segment = None
                    /\ response.data[i].extractionError = tasks[i].error
            /\ tasks[i].state = "resolved"
                 => /\ response.data[i].segment = Some(tasks[i].value)
                    /\ "extractionError" \notin DOMAIN response.data[i]

\* a batch of two whose second call settled first and failed, while the first
\* one resolved
C12_Witness ==
  /\ BatchAnswered
  /\ Len(tasks) = 2
  /\ tasks[2].order < tasks[1].order
  /\ tasks[2].state = "rejected"
  /\ tasks[1].state = "resolved"

C15_FailedSegmentIsUnknown ==
  /\ \A i \in 1..Len(route) :
       route[i].requestFailed
         => route[i].status = "unknown" /\ route[i].currentTime # route[i].normalTime
  /\ report.present
       => report.totalCurrentTime
            = Sum([i \in 1..Len(route) |->
                     IF route[i].requestFailed THEN 0
                     ELSE OrNumber(route[i].currentTime, route[i].normalTime)])

\* ---- C16
\* a step that empties one of the caches
SomeCacheEmptied ==
  \/ tiiCache # << >> /\ tiiCache' = << >>
  \/ webtrisCache # << >> /\ webtrisCache' = << >>
  \/ googleCache # << >> /\ googleCache' = << >>
  \/ llmCache # << >> /\ llmCache' = << >>

\* a call that was pending when the caches were cleared and whose requests all
\* succeeded has resolved with what its own requests brought
PendingCallsUnharmed ==
  /\ \A i \in CallIndices :
       calls[i].cleared /\ calls[i].done /\ ~calls[i].failed
         => /\ calls[i].result.error = Undefined
            /\ ~calls[i].result.fromCache
            /\ calls[i].result.timestamp >= calls[i].startedAt
  /\ \A i \in TaskIndices :
       tasks[i].cleared /\ Settled(tasks[i]) /\ tasks[i].failure = Undefined
         => tasks[i].state = "resolved" /\ ~tasks[i].value.cached

\* C16: the cache-clear operation empties the four caches (TII, WebTRIS,
\* Google Maps, enrichment) in one step, it can always be carried out, and a
\* fetch that is in flight when it happens still resolves normally with its
\* own result.
C16_ClearEmptiesAllAndHarmsNoFetch ==
  /\ [](PendingCallsUnharmed /\ ENABLED ClearCache)
  /\ [][SomeCacheEmptied
          => tiiCache' = << >> /\ webtrisCache' = << >> /\ googleCache' = << >>
               /\ llmCache' = << >>]_vars

\* an adapter fetch and an enrichment that were in flight when the caches
\* were cleared have both completed, the fetch with records of its own
C16_Witness ==
  /\ \E i \in CallIndices :
       calls[i].cleared /\ calls[i].done /\ calls[i].result.data # << >>
  /\ \E i \in TaskIndices :
       tasks[i].cleared /\ tasks[i].state = "resolved" /\ tasks[i].failure = Undefined

\* ------------------------------------------ the normalizers on their own

\* situation records with a missing (0), a plain and an inverted pair of
\* travel time and free-flow time, in seconds
TIIPayloads ==
  [roadName : {M1}, directionBound : {"Northbound"},
   travelTime : {0, 123, 130, 1300}, freeFlowTravelTime : {0, 120, 600},
   lat : {NoCoord}, lon : {NoCoord}]

\* sites with and without typicalSpeed and length, and reports from none
\* (speed 0) to faster than typical
SitePayloads ==
  [id : {101}, name : {M1}, direction : {"Northbound"}, typicalSpeed : {0, 60},
   length : {0, 10}, latitude : {NoCoord}, longitude : {NoCoord}]

ReportPayloads == [siteId : {101}, speed : {0, 30, 58, 80}, vehicleFlow : {7}]

\* legs with a missing, a short and a long duration, with traffic or without
RoutePayloads ==
  [distance : {42000}, duration : {0, 60, 6000}, duration_in_traffic : {0, 30, 130, 6200}]

\* how many records are looked at together
MaxProduced == 2

NormalizeTII(record) ==
  /\ Len(produced) < MaxProduced
  /\ produced' = Append(produced, normalizeTIIRecord(record))
  /\ UNCHANGED <<now, apiKey, tiiCache, webtrisCache, googleCache, apiCallCount,
                 apiCallHistory, nreq, pc, query, results, sites, response, calls, last,
                 llmEnabled, llmCache, tasks, route, report, fetches, writes>>

NormalizeWebTRIS(site, siteReport) ==
  /\ Len(produced) < MaxProduced
  /\ produced' = Append(produced, normalizeWebTRISRecord(site, siteReport))
  /\ UNCHANGED <<now, apiKey, tiiCache, webtrisCache, googleCache, apiCallCount,
                 apiCallHistory, nreq, pc, query, results, sites, response, calls, last,
                 llmEnabled, llmCache, tasks, route, report, fetches, writes>>

NormalizeGoogle(leg) ==
  /\ Len(produced) < MaxProduced
  /\ produced' = Append(produced, normalizeGoogleMapsData(leg, M1, M1, M1))
  /\ UNCHANGED <<now, apiKey, tiiCache, webtrisCache, googleCache, apiCallCount,
                 apiCallHistory, nreq, pc, query, results, sites, response, calls, last,
                 llmEnabled, llmCache, tasks, route, report, fetches, writes>>

NextRecords ==
  \/ \E record \in TIIPayloads : NormalizeTII(record)
  \/ \E site \in SitePayloads, siteReport \in ReportPayloads : NormalizeWebTRIS(site, siteReport)
  \/ \E leg \in RoutePayloads : NormalizeGoogle(leg)

SpecRecords == InitWith({TRUE}, FALSE, {Monitor}) /\ [][NextRecords]_vars

ProducedIndices == 1..Len(produced)

\* ---- C17
\* C17: every record an adapter produces has delayMinutes >= 0, whatever the
\* payload: missing, zero or inverted travel and free-flow values included.
C17_DelayNeverNegative ==
  \A i \in ProducedIndices : produced[i].delayMinutes >= 0

\* a TII record whose travel time is below its free-flow time next to a Google
\* Maps record whose duration in traffic is below its duration
C17_Witness ==
  /\ \E i \in ProducedIndices :
       /\ produced[i].source = "TII-Ireland"
       /\ produced[i].travelTimeMinutes < produced[i].freeFlowTimeMinutes
  /\ \E i \in ProducedIndices :
       /\ produced[i].source = "GoogleMaps"
       /\ produced[i].durationInTrafficMinutes < produced[i].durationMinutes

\* ---- C18
\* none < light < moderate < heavy
LevelRank(level) ==
  CASE level = "none" -> 0
    [] level = "light" -> 1
    [] level = "moderate" -> 2
    [] level = "heavy" -> 3

Levels == {"none", "light", "moderate", "heavy"}

\* of two records of one adapter, the one with the larger delayMinutes has no
\* lower congestionLevel
MonotoneFor(source) ==
  \A i, j \in ProducedIndices :
    /\ produced[i].source = source /\ produced[j].source = source
    /\ produced[i].congestionLevel \in Levels /\ produced[j].congestionLevel \in Levels
    /\ produced[i].delayMinutes > produced[j].delayMinutes
    => LevelRank(produced[i].congestionLevel) >= LevelRank(produced[j].congestionLevel)

\* C18: for each adapter, congestionLevel is monotonically non-decreasing in
\* delayMinutes: of any two records of the same adapter, the one with the
\* larger delayMinutes never has the lower level.
C18_LevelMonotoneInDelay ==
  MonotoneFor("TII-Ireland") /\ MonotoneFor("WebTRIS-UK") /\ MonotoneFor("GoogleMaps")

\* ---- C19
\* the fixed order of the adapters
AdapterRank(adapter) ==
  CASE adapter = "TII-Ireland" -> 1
    [] adapter = "WebTRIS-UK" -> 2
    [] adapter = "GoogleMaps" -> 3

\* the records of the calls from the i-th on, call after call
RECURSIVE CallData(_)
CallData(i) ==
  IF i > Len(calls) THEN << >> ELSE calls[i].result.data \o CallData(i + 1)

\* C19: within one fetchTrafficWithFallback invocation the adapters are called
\* one after the other in the order TII, WebTRIS, Google Maps, each free
\* adapter at most once; a call starts only when every earlier call has
\* resolved, so a Google Maps request never starts before the applicable free
\* adapters have resolved; and the merged data lists the records in that
\* source order.
C19_AdaptersInFixedOrder ==
  /\ \A i, j \in CallIndices :
       i < j => /\ AdapterRank(calls[i].adapter) <= AdapterRank(calls[j].adapter)
                /\ calls[i].adapter \in FreeAdapters => calls[i].adapter # calls[j].adapter
                /\ calls[i].done
  /\ pc = "done" => results.data = CallData(1)

\* an invocation that has called TII and then WebTRIS, and both brought records
C19_Witness ==
  /\ pc = "done"
  /\ \E i, j \in CallIndices :
       /\ calls[i].adapter = "TII-Ireland" /\ calls[i].result.data # << >>
       /\ calls[j].adapter = "WebTRIS-UK" /\ calls[j].result.data # << >>

\* --------------------------- fetches of one adapter called side by side

\* how many fetches are called
MaxFetches == 3

\* what no side-by-side fetch touches
requestVars == <<nreq, pc, query, results, sites, response, calls, last, llmEnabled,
                 llmCache, tasks, route, report, produced>>

\* the road every such fetch asks for, and the Google Maps pair it becomes
OverlapRoad(adapter) == IF adapter = "WebTRIS-UK" THEN M1 ELSE R132
OverlapOrigin == roadTrafficOrigin(R132, << >>, countryName(IE))
OverlapDestination == roadTrafficDestination(R132, << >>, countryName(IE))

OverlapKey(adapter) ==
  IF adapter = "TII-Ireland" THEN tiiCacheKey(OverlapRoad(adapter))
  ELSE IF adapter = "WebTRIS-UK" THEN webtrisCacheKey(OverlapRoad(adapter))
  ELSE googleCacheKey(OverlapOrigin, OverlapDestination)

CacheOf(adapter) ==
  IF adapter = "TII-Ireland" THEN tiiCache
  ELSE IF adapter = "WebTRIS-UK" THEN webtrisCache
  ELSE googleCache

\* isCacheValid(cache.get(cacheKey)) of the adapter
CacheHit(adapter, cache, key) ==
  /\ key \in DOMAIN cache
  /\ IF adapter = "TII-Ireland" THEN tiiIsCacheValid(cache[key].timestamp, now)
     ELSE IF adapter = "WebTRIS-UK" THEN webtrisIsCacheValid(cache[key].timestamp, now)
     ELSE googleIsCacheValid(cache[key].timestamp, now)

FirstAwait(adapter) ==
  IF adapter = "TII-Ireland" THEN "tii"
  ELSE IF adapter = "WebTRIS-UK" THEN "webtris_sites"
  ELSE "google"

Fetched(f) == f.pc = "done"
AllFetched == \A i \in 1..Len(fetches) : Fetched(fetches[i])

\* a fetch from its call to its first await, or to its return on a valid entry
NewFetch(adapter, key, cache, hit) ==
  [adapter |-> adapter, key |-> key, startedAt |-> now,
   cachedAge |-> CachedAge(cache, key),
   overlapped |-> ~AllFetched,
   pc |-> IF hit THEN "done" ELSE FirstAwait(adapter),
   sites |-> << >>, answers |-> << >>, stored |-> FALSE,
   result |-> IF hit THEN Result(cache[key].data, TRUE, Undefined, cache[key].timestamp)
              ELSE NoResult]

\* fetchTIITraffic / fetchWebTRISTraffic / fetchGoogleMapsTraffic is called
\* while earlier calls on the same adapter may still be waiting
StartFetch(adapter) ==
  /\ Len(fetches) < MaxFetches
  /\ IF fetches = << >> THEN TRUE ELSE fetches[1].adapter = adapter
  /\ fetches' = Append(fetches,
                       NewFetch(adapter, OverlapKey(adapter), CacheOf(adapter),
                                CacheHit(adapter, CacheOf(adapter), OverlapKey(adapter))))
  /\ UNCHANGED <<now, apiKey, tiiCache, webtrisCache, googleCache, apiCallCount,
                 apiCallHistory, requestVars, writes>>

\* the i-th fetch returns `result`, having written the cache or not
FetchReturns(i, o, result, store) ==
  /\ fetches' = [fetches EXCEPT ![i] = [@ EXCEPT !.pc = "done", !.result = result,
                                                 !.answers = Append(@, o),
                                                 !.stored = store]]
  /\ writes' = IF store THEN Append(writes, i) ELSE writes

FetchHandled(i, o, h) == FetchReturns(i, o, h.result, h.store)

TIICacheAfter(i, h) ==
  tiiCache' = IF h.store THEN CacheSet(tiiCache, fetches[i].key, h.result.data, now)
              ELSE tiiCache

\* the /traffic request of the i-th fetch settles
FetchTIIResponse(i, o) ==
  /\ fetches[i].pc = "tii"
  /\ FetchHandled(i, o, tiiHandle(o, OverlapRoad("TII-Ireland")))
  /\ TIICacheAfter(i, tiiHandle(o, OverlapRoad("TII-Ireland")))
  /\ UNCHANGED <<now, apiKey, webtrisCache, googleCache, apiCallCount, apiCallHistory,
                 requestVars>>

\* the /sites request of the i-th fetch has settled with `f`
FetchSitesHandled(i, o, f) ==
  IF ~f.isArray
  THEN FetchReturns(i, o, Result(<< >>, FALSE, "sites.map is not a function", now), FALSE)
  ELSE IF Len(f.sites) = 0
  THEN FetchReturns(i, o, Result(<< >>, FALSE, Undefined, now), FALSE)
  ELSE /\ fetches' = [fetches EXCEPT ![i] = [@ EXCEPT !.pc = "webtris_reports",
                                                      !.sites = f.sites,
                                                      !.answers = Append(@, o)]]
       /\ writes' = writes

FetchSitesResponse(i, o) ==
  /\ fetches[i].pc = "webtris_sites"
  /\ FetchSitesHandled(i, o, fetchSites(o))
  /\ UNCHANGED <<now, apiKey, tiiCache, webtrisCache, googleCache, apiCallCount,
                 apiCallHistory, requestVars>>

\* (variant: nothing is cached when the reports request failed)
FetchReportsHandledSkippingFailed(i, o, data) ==
  /\ FetchReturns(i, o, Result(data, FALSE, Undefined, now), o.kind # "error")
  /\ webtrisCache' = IF o.kind # "error"
                     THEN CacheSet(webtrisCache, fetches[i].key, data, now)
                     ELSE webtrisCache

FetchReportsHandled(i, o, data) ==
  /\ FetchReturns(i, o, Result(data, FALSE, Undefined, now), TRUE)
  /\ webtrisCache' = CacheSet(webtrisCache, fetches[i].key, data, now)

\* the /reports/current request of the i-th fetch settles
FetchReportsResponse(i, o) ==
  /\ fetches[i].pc = "webtris_reports"
  /\ FetchReportsHandled(i, o, webtrisMerge(fetches[i].sites, fetchReports(o)))
  /\ UNCHANGED <<now, apiKey, tiiCache, googleCache, apiCallCount, apiCallHistory,
                 requestVars>>

FetchGoogleHandled(i, o, h) ==
  /\ FetchHandled(i, o, h)
  /\ googleCache' = IF h.store THEN CacheSet(googleCache, fetches[i].key, h.result.data, now)
                    ELSE googleCache
  /\ apiCallCount' = apiCallCount + 1
  /\ apiCallHistory' = trackAPICall(apiCallHistory, OverlapOrigin, OverlapDestination,
                                    h.success)

\* the Directions request of the i-th fetch settles
FetchGoogleResponse(i, o) ==
  /\ fetches[i].pc = "google"
  /\ FetchGoogleHandled(i, o, googleHandle(o, OverlapOrigin, OverlapDestination, R132))
  /\ UNCHANGED <<now, apiKey, tiiCache, webtrisCache, requestVars>>

\* time passes between fetches: each is over within its axios timeouts
FetchTick == AllFetched /\ Tick

\* a later state of the TII feed
TIIFeedLater == << [roadName |-> R132, directionBound |-> "Unknown",
                    travelTime |-> 900, freeFlowTravelTime |-> 300,
                    lat |-> NoCoord, lon |-> NoCoord] >>

OverlapTIIOutcomes ==
  [kind : {"error"}, message : NetErrors] \cup [kind : {"ok"}, situation : {TIIFeed, TIIFeedLater}]

OverlapSitesOutcomes ==
  [kind : {"error"}, message : NetErrors] \cup [kind : {"ok"}, sites : {<<Site1, Site2>>}]

OverlapGoogleOutcomes ==
  [kind : {"error"}, message : NetErrors]
    \cup [kind : {"ok"},
          route : { [distance |-> 42000, duration |-> 1500, duration_in_traffic |-> 2700],
                    [distance |-> 42000, duration |-> 1500, duration_in_traffic |-> 1500] }]

FetchIndices == 1..Len(fetches)

NextOverlap ==
  \/ \E adapter \in Adapters : StartFetch(adapter)
  \/ \E i \in FetchIndices, o \in OverlapTIIOutcomes : FetchTIIResponse(i, o)
  \/ \E i \in FetchIndices, o \in OverlapSitesOutcomes : FetchSitesResponse(i, o)
  \/ \E i \in FetchIndices, o \in ReportsOutcomes : FetchReportsResponse(i, o)
  \/ \E i \in FetchIndices, o \in OverlapGoogleOutcomes : FetchGoogleResponse(i, o)
  \/ FetchTick

SpecOverlap == InitWith({TRUE}, FALSE, {Monitor}) /\ [][NextOverlap]_vars

\* ---- C20
\* what the i-th fetch must have resolved with, from the answers it got itself
OwnResult(f) ==
  IF f.adapter = "TII-Ireland" THEN tiiHandle(f.answers[1], OverlapRoad(f.adapter)).result
  ELSE IF f.adapter = "GoogleMaps"
  THEN googleHandle(f.answers[1], OverlapOrigin, OverlapDestination, R132).result
  ELSE IF f.answers[1].kind # "ok"
  THEN Result(<< >>, FALSE, Undefined, now)
  ELSE Result(webtrisMerge(f.answers[1].sites, fetchReports(f.answers[2])),
              FALSE, Undefined, now)

ResolvedWithOwn(f) ==
  /\ f.result.data = OwnResult(f).data
  /\ f.result.error = OwnResult(f).error
  /\ ~f.result.fromCache

LastWriter == fetches[writes[Len(writes)]]

RECURSIVE InvokedFrom(_, _)
InvokedFrom(i, seen) ==
  IF i > Len(calls) THEN << >>
  ELSE IF calls[i].adapter \in seen THEN InvokedFrom(i + 1, seen)
  ELSE <<calls[i].adapter>> \o InvokedFrom(i + 1, seen \cup {calls[i].adapter})

\* C21: in every fetchTrafficWithFallback result, sourcesUsed lists exactly the
\* adapters that were invoked, each once and in invocation order, whether or
\* not they returned data; fallbackUsed is true exactly when 'GoogleMaps' is in
\* sourcesUsed; and every record of data has a source that is in sourcesUsed.
C21_SourcesUsedAreTheInvoked ==
  pc = "done" =>
    /\ results.sourcesUsed = InvokedFrom(1, {})
    /\ results.fallbackUsed <=> TimesIn(results.sourcesUsed, "GoogleMaps") > 0
    /\ \A k \in 1..Len(results.data) :
         TimesIn(results.sourcesUsed, results.data[k].source) > 0

\* a result of a free adapter that brought nothing and of Google Maps that
\* brought a record
C21_Witness ==
  /\ pc = "done"
  /\ Len(results.sourcesUsed) = 2
  /\ results.fallbackUsed
  /\ Len(results.data) > 0
  /\ \E i \in CallIndices :
       calls[i].adapter \in FreeAdapters /\ calls[i].result.data = << >>

\* ---- C22
FirstGoogleCall == CHOOSE i \in GoogleCalls : \A j \in GoogleCalls : i <= j

\* C22: whenever the commercial adapter is triggered and its first request
\* returns empty data, exactly one retry with the "Near X" / "End of X"
\* phrasing is issued before giving up, for every query, with or without a
\* town; no retry is issued when the first request returned data.
C22_RetryOnceWhenEmpty ==
  pc = "done" /\ GoogleCalls # {} =>
    IF calls[FirstGoogleCall].result.data = << >>
    THEN /\ Cardinality(GoogleCalls) = 2
         /\ \E j \in GoogleCalls :
              calls[j].key = googleCacheKey(altOrigin(query.road, query.town),
                                            altDest(query.road, query.town))
    ELSE Cardinality(GoogleCalls) = 1

\* ---- C23
\* the congestion level a segment status stands for
StatusLevel(status) == IF status = "clear" THEN "none" ELSE status

\* C23: the status of a segment of the junction report follows the four-tier
\* thresholds of the national-roads adapter: for every delayMinutes the status
\* is the level that scheme gives to the delay (> 10 heavy, > 5 moderate,
\* > 2 light, else none / clear), the boundary values 2, 5 and 10 included.
C23_SegmentStatusByNationalThresholds ==
  \A i \in 1..Len(route) :
    ~route[i].requestFailed
      => StatusLevel(route[i].status) = tiiCongestion(route[i].delayMinutes)

\* ---- C24
Supplied(x) == x # NullTime

\* C24: for a junction segment with data, delayMinutes is the delayMinutes of
\* the chosen record whenever the record supplies one, 0 included, and
\* max(0, currentTime - normalTime) only when the record supplies none.
C24_RecordDelayTakenWhenSupplied ==
  \A i \in 1..Len(route) :
    "rawData" \in DOMAIN route[i] =>
      route[i].delayMinutes =
        IF Supplied(route[i].rawData.delayMinutes) THEN route[i].rawData.delayMinutes
        ELSE Max(0, route[i].currentTime - route[i].normalTime)

\* ---- C25
\* C25: the totalDelay of the junction report builder, both the value that
\* drives the recommendation of the rendered report and the summary.totalDelay
\* of the returned structure, is totalCurrent - totalNormal, the sums of
\* currentTime and of normalTime over the segments.
C25_TotalDelayIsCurrentMinusNormal ==
  report.present =>
    /\ report.totalNormalTime = Sum([i \in 1..Len(route) |-> route[i].normalTime])
    /\ report.totalDelay = report.totalCurrentTime - report.totalNormalTime
    /\ report.recommendation = recommendationTier(report.totalDelay)
    /\ report.summaryTotalDelay = report.totalCurrentTime - report.totalNormalTime

\* ------------------------------- a long run of Google Maps requests

\* how many Directions requests are sent: more than the history keeps
MaxAudited == 102

\* for how many of them the answer varies; the later ones fail, so that
\* nothing is cached and every further request is sent
MaxVaried == 2

\* a street without town and country: only Google Maps is asked, once
AuditOrigin == roadTrafficOrigin(Quay, << >>, countryName(<< >>))
AuditDestination == roadTrafficDestination(Quay, << >>, countryName(<< >>))

\* the next fetchGoogleMapsTraffic call gets as far as axios.get
WillSend == ~googleImmediate(AuditOrigin, AuditDestination).returns

\* GET /traffic?road=Quay, again and again; requests that send nothing (no
\* API key, a valid cache entry) are among the first
AuditRequest ==
  /\ apiCallCount < MaxAudited
  /\ nreq < MaxRequests \/ WillSend
  /\ StartRequest(Quay, << >>, << >>)

AuditOutcomes ==
  IF apiCallCount < MaxVaried
  THEN {o \in GoogleOutcomes : o.kind \in {"error", "noRoutes", "ok"}}
  ELSE {o \in GoogleOutcomes : o.kind = "error"}

\* time passes between the first requests, so that an entry is met fresh and
\* expired; the later requests follow one another closely
AuditTick == apiCallCount <= MaxVaried /\ Tick

NextAudit ==
  \/ AuditRequest
  \/ \E o \in AuditOutcomes : GoogleResponse(o)
  \/ AuditTick

SpecAudit == Init /\ [][NextAudit]_vars

\* ---- C26
\* a Directions request that was sent comes back in this step
RequestSettles == pc \in {"google", "google_alt"} /\ pc' # pc

\* the `n` most recent entries of a history
MostRecent(history, n) == SubSeq(history, Len(history) - n + 1, Len(history))

\* C26: apiCallCount grows by exactly one for each request sent to the
\* Directions API, successful or failed, and by nothing for a cache hit or a
\* return for the missing API key; apiCallHistory never holds more than 100
\* entries and always holds the most recent calls in call order.
C26_EveryRequestCountedOnce ==
  /\ [](/\ Len(apiCallHistory) <= HISTORY_LIMIT
        /\ Len(apiCallHistory) = IF apiCallCount < HISTORY_LIMIT THEN apiCallCount
                                  ELSE HISTORY_LIMIT)
  /\ [][IF RequestSettles
        THEN /\ apiCallCount' = apiCallCount + 1
             /\ apiCallHistory'[Len(apiCallHistory')].timestamp = now
             /\ apiCallHistory'[Len(apiCallHistory')].origin = AuditOrigin
             /\ SubSeq(apiCallHistory', 1, Len(apiCallHistory') - 1)
                  = MostRecent(apiCallHistory, Len(apiCallHistory') - 1)
        ELSE apiCallCount' = apiCallCount /\ apiCallHistory' = apiCallHistory]_vars

\* more requests have been sent than the history keeps, and the oldest call,
\* a successful one, is no longer in it
C26_Witness ==
  /\ apiCallCount > HISTORY_LIMIT
  /\ Len(apiCallHistory) = HISTORY_LIMIT
  /\ \A k \in 1..Len(apiCallHistory) : ~apiCallHistory[k].success
  /\ now > 0

\* ---- C27
\* the WebTRIS fetches that went through site discovery and the reports request
Merged == {i \in FetchIndices :
             /\ fetches[i].adapter = "WebTRIS-UK" /\ Fetched(fetches[i])
             /\ Len(fetches[i].answers) = 2}

Reported(i, id) ==
  \E j \in 1..Len(fetchReports(fetches[i].answers[2])) :
    fetchReports(fetches[i].answers[2])[j].siteId = id

BreakdownTotal(breakdown) ==
  breakdown.heavy + breakdown.moderate + breakdown.light + breakdown.none

\* C28: every record the /traffic pipeline returns, from any adapter, has a
\* congestionLevel among none, light, moderate and heavy, so in every response
\* the four congestionBreakdown counts sum to summary.totalRecords.
C28_BreakdownCoversAllRecords ==
  pc = "done" /\ response.status = 200 =>
    /\ \A k \in 1..Len(response.data) : response.data[k].congestionLevel \in Levels
    /\ BreakdownTotal(response.summary.congestionBreakdown) = response.summary.totalRecords

\* ---- C29
\* the options a caller of extractSegment can pass
AllOptions == [useCache : BOOLEAN, fallback : BOOLEAN]

\* how many calls of extractSegment the callers make
MaxCalls == 2

\* extractSegment is called with every choice of options while time passes
NextCalls ==
  \/ \E text \in ExtractTexts, options \in AllOptions :
       nreq < MaxCalls /\ ExtractCalled([text |-> text], options)
  \/ \E o \in LLMOutcomes : LLMResponse(1, o)
  \/ Tick

SpecCalls == InitEnrich /\ [][NextCalls]_vars

Degraded(value) == "fallback" \in DOMAIN value /\ value.fallback

FromCache(value) == "cached" \in DOMAIN value /\ value.cached

\* the i-th call settles in this step with a parsed answer of the backend
SettlesExtracted(i) ==
  /\ i \in 1..Len(tasks')
  /\ tasks[i].state = "await"
  /\ tasks'[i].state = "resolved"
  /\ ~Degraded(tasks'[i].value)

\* no entry of the cache is a degraded result
NoDegradedEntry == \A key \in DOMAIN llmCache : ~Degraded(llmCache[key].data)

\* a result with cached: true is no degraded one and answers a call with useCache
HitsOnlyWithUseCache ==
  \A i \in 1..Len(tasks) :
    tasks[i].state = "resolved" /\ FromCache(tasks[i].value) =>
      ~Degraded(tasks[i].value) /\ tasks[i].options.useCache

\* C29: extractSegment writes the enrichment cache only after a successful
\* backend call whose response parsed: at every moment no entry of the cache
\* and no result returned with cached: true carries fallback: true, a result
\* with cached: true is only returned to a call with useCache, and the cache
\* changes only when a call with useCache settles with an extracted result,
\* which becomes the entry of its key while every other entry stays.
C29_CacheHoldsOnlyExtractedResults ==
  /\ NoDegradedEntry
  /\ HitsOnlyWithUseCache
  /\ [][/\ NoDegradedEntry'
        /\ HitsOnlyWithUseCache'
        /\ llmCache' # llmCache =>
             \E i \in 1..Len(tasks) :
               /\ SettlesExtracted(i)
               /\ tasks[i].options.useCache
               /\ DOMAIN llmCache' = DOMAIN llmCache \cup {llmCacheKey(tasks[i].input)}
               /\ llmCache'[llmCacheKey(tasks[i].input)].data = tasks'[i].value
               /\ \A key \in DOMAIN llmCache \ {llmCacheKey(tasks[i].input)} :
                    llmCache'[key] = llmCache[key]]_vars

\* a call with useCache: false got a fresh extraction although the cache
\* holds a valid entry for its input, and the entry is the older one
C29_Witness ==
  /\ Len(tasks) = 1
  /\ ~tasks[1].options.useCache
  /\ tasks[1].state = "resolved"
  /\ ~FromCache(tasks[1].value)
  /\ llmCacheKey(tasks[1].input) \in DOMAIN llmCache
  /\ now - llmCache[llmCacheKey(tasks[1].input)].timestamp < CACHE_TTL
  /\ llmCache[llmCacheKey(tasks[1].input)].timestamp < now

\* ---- C30
\* the records of sites whose speed is not known
ZeroSpeedRecords(data) ==
  \A k \in 1..Len(data) :
    /\ data[k].averageSpeed = 0
    /\ data[k].delayMinutes = 0
    /\ data[k].congestionLevel = "heavy"

\* the reports request of the i-th fetch fails in this step
ReportsFail(i) ==
  /\ fetches[i].adapter = "WebTRIS-UK"
  /\ fetches[i].pc = "webtris_reports"
  /\ fetches'[i].pc = "done"
  /\ fetches'[i].answers[2].kind = "error"

\* a fetch of the WebTRIS road is called in this step while a valid entry is cached
CalledOnValidEntry ==
  /\ Len(fetches') = Len(fetches) + 1
  /\ fetches'[Len(fetches')].adapter = "WebTRIS-UK"
  /\ OverlapKey("WebTRIS-UK") \in DOMAIN webtrisCache
  /\ now - webtrisCache[OverlapKey("WebTRIS-UK")].timestamp < CACHE_TTL_MS

\* C30: when site discovery succeeded and the reports request fails,
\* fetchWebTRISTraffic resolves with no error field and one record per site,
\* each with averageSpeed 0, delayMinutes 0 and congestionLevel 'heavy', and
\* stores that result in the cache; every fetch of the road that is called
\* while the entry of the cache is younger than the TTL is served that entry
\* with fromCache = true.
C30_FailedReportsCachedAsHeavy ==
  [][/\ \A i \in FetchIndices :
          ReportsFail(i) =>
            /\ fetches'[i].result.error = Undefined
            /\ ~fetches'[i].result.fromCache
            /\ Len(fetches'[i].result.data) = Len(fetches[i].sites)
            /\ \A k \in 1..Len(fetches[i].sites) :
                 fetches'[i].result.data[k].siteId = fetches[i].sites[k].id
            /\ ZeroSpeedRecords(fetches'[i].result.data)
            /\ OverlapKey("WebTRIS-UK") \in DOMAIN webtrisCache'
            /\ webtrisCache'[OverlapKey("WebTRIS-UK")] =
                 [data |-> fetches'[i].result.data, timestamp |-> now]
     /\ CalledOnValidEntry =>
          /\ fetches'[Len(fetches')].pc = "done"
          /\ fetches'[Len(fetches')].result.fromCache
          /\ fetches'[Len(fetches')].result.error = Undefined
          /\ fetches'[Len(fetches')].result.data
               = webtrisCache[OverlapKey("WebTRIS-UK")].data]_vars

\* a fetch whose reports request failed, and a fetch called later, within the
\* TTL, that was served its two heavy records from the cache
C30_Witness ==
  \E i, j \in FetchIndices :
    /\ i < j
    /\ i \in Merged
    /\ fetches[i].answers[2].kind = "error"
    /\ fetches[i].stored
    /\ Fetched(fetches[j])
    /\ fetches[j].answers = << >>
    /\ fetches[j].result.fromCache
    /\ fetches[j].startedAt > fetches[i].startedAt
    /\ fetches[j].result.data = fetches[i].result.data
    /\ Len(fetches[j].result.data) = 2
    /\ ZeroSpeedRecords(fetches[j].result.data)

====
